---------------------------- MODULE Spec2Model ----------------------------
(***************************************************************************)
(* Tariff extraction and matrix normalisation (transformation-rates).      *)
(*                                                                         *)
(* The module models, from src/main.py and src/create_table.py:            *)
(*   - the section segmenter       process_main_costs        (SegSpec)     *)
(*   - the matrix builder          build_matrix_main_costs   (Spec)        *)
(*   - the zoning expander         expand_main_costs_lanes_by_zoning       *)
(*   - the cost-type resolver      _best_match_cost_type     (CostSpec)    *)
(*   - the country-code resolver   _country_to_code          (CodeSpec)    *)
(*   - the matrix finder           _find_matrix_for_service  (FindSpec)    *)
(* from src/fill_service_types.py:                                         *)
(*   - the service-type filler     fill_null_service_types   (FillSpec)    *)
(* and from src/pipeline_main.py:                                          *)
(*   - the pipeline runner         run_pipeline              (PipeSpec)    *)
(*                                                                         *)
(* Python text is modelled by TLA+ strings, taken apart character by       *)
(* character; Python dicts whose insertion order the code relies on are    *)
(* modelled by sequences of entries.                                       *)
(***************************************************************************)
EXTENDS Integers, Sequences, FiniteSets, TLC

VARIABLES
    \* ---- process_main_costs (src/main.py)
    main_costs_field,   \* the MainCosts field handed to process_main_costs (input)
    seg_idx,            \* index of the next item of the for loop
    current_rate_card,  \* the section being filled, or NoCard
    rate_cards,         \* the sections appended so far
    seg_pc,             \* "start" | "loop" | "done" | "idle"
    \* ---- build_matrix_main_costs / expand_main_costs_lanes_by_zoning
    main_costs,         \* list of sections handed to the matrix builder
    carrier,            \* metadata['carrier']
    zoning_matrix,      \* the raw ZoningMatrix rows
    parsed_lookup,      \* parse_zoning_matrix(zoning_matrix)
    set_order,          \* order in which expansion iterated the set of matrix names
    lane_rows,          \* the dict of lanes as created, before sorting and post-fill
    sorted_keys,        \* the (service_type, zone_name) keys in lane order
    matrix_rows,        \* the lane list returned by the builder
    expanded,           \* the lane list returned by the expander
    category_specs,     \* list of [cat, unit, weights]
    mx_pc,              \* "input" | "built" | "raised" | "expanded" | "parse" | "parsed" | "idle"
    \* ---- _best_match_cost_type
    original_name,      \* the name to resolve
    name_list,          \* the reference list
    cost_idx,           \* index of the next name of the for loop
    best_score,         \* the highest score so far
    best_name,          \* the name that reached it
    cost_type,          \* the returned name
    cost_pc,            \* "input" | "loop" | "done" | "idle"
    \* ---- _country_to_code
    country,            \* the country name to resolve
    name_to_code,       \* the table of country names and codes
    country_code,       \* the returned code
    code_pc,            \* "input" | "done" | "idle"
    \* ---- extract_value (src/main.py)
    tagged,             \* the tagged field handed to extract_value
    extracted,          \* the returned value
    ext_pc,             \* "input" | "done" | "idle"
    \* ---- _find_matrix_for_service (src/create_table.py)
    find_order,         \* the matrix names of the lookup, in the order the set is iterated
    find_service,       \* the service handed to the function
    find_result,        \* the returned matrix name, "" for None
    find_pc,            \* "input" | "done" | "idle"
    \* ---- fill_null_service_types (src/fill_service_types.py)
    fill_input,         \* data['MainCosts'] before the first call
    fill_data,          \* data['MainCosts'] now
    filled_count,       \* the count returned by the last call
    fill_pc,            \* "input" | "filled" | "refilled" | "idle"
    \* ---- run_pipeline / _archive_processed_input (src/pipeline_main.py)
    steps_run,          \* the steps started so far, in order
    json_written,       \* the extracted JSON was saved by this run
    xlsx_written,       \* the workbook was saved by this run
    txt_written,        \* the country-zoning text was saved by this run
    input_at,           \* "input" | "archive" | "gone": where the input file is
    archive_folder,     \* the archive folder the run resolves, "" when there is none
    archive_names,      \* the numbers of the names taken in the archive before the move
    archived_to,        \* <<i>> when the input was moved to name i, <<>> for None
    pipe_pc             \* "start" | "read" | ... | "complete" | "finished" | "failed" | "idle"

seg_vars  == <<main_costs_field, seg_idx, current_rate_card, rate_cards, seg_pc>>
mx_vars   == <<main_costs, carrier, zoning_matrix, parsed_lookup, set_order, lane_rows, sorted_keys, matrix_rows,
               expanded, category_specs, mx_pc>>
cost_vars == <<original_name, name_list, cost_idx, best_score, best_name, cost_type, cost_pc>>
code_vars == <<country, name_to_code, country_code, code_pc>>
ext_vars  == <<tagged, extracted, ext_pc>>
find_vars == <<find_order, find_service, find_result, find_pc>>
fill_vars == <<fill_input, fill_data, filled_count, fill_pc>>
pipe_vars == <<steps_run, json_written, xlsx_written, txt_written, input_at, archive_folder,
               archive_names, archived_to, pipe_pc>>
vars      == <<seg_vars, mx_vars, cost_vars, code_vars, ext_vars, find_vars, fill_vars, pipe_vars>>

-----------------------------------------------------------------------------
(***************************************************************************)
(* Bounds of the model.                                                    *)
(***************************************************************************)
MaxRows == 3          \* longest valueArray fed to the segmenter
MaxSections == 2      \* longest section list fed to the matrix builder
MaxNames == 2         \* longest reference list fed to the cost-type resolver
MaxEntries == 2       \* largest table fed to the country-code resolver
MaxZoningRows == 4    \* longest ZoningMatrix fed to the zoning parser on its own
MaxMatrixNames == 3   \* most matrix names in a lookup fed to the matrix finder on its own
MaxFillSections == 3  \* longest MainCosts list fed to fill_null_service_types
MaxArchived == 2      \* largest number of a name taken in the archive before the run

-----------------------------------------------------------------------------
(***************************************************************************)
(* Python str operations.                                                  *)
(***************************************************************************)

\* Printable ASCII in code-point order, without the grave accent (code 96):
\* AsciiLow holds codes 32..95, AsciiHigh holds codes 97..126.
AsciiLow == " !\"#$%&'()*+,-./0123456789:;<=>?@ABCDEFGHIJKLMNOPQRSTUVWXYZ[\\]^_"
AsciiHigh == "abcdefghijklmnopqrstuvwxyz{|}~"
UpperLetters == "ABCDEFGHIJKLMNOPQRSTUVWXYZ"
LowerLetters == "abcdefghijklmnopqrstuvwxyz"
Digits == "0123456789"

CharAt(s, i) == SubSeq(s, i, i)

\* s[i:] and s[:i] with a 0-based Python index i
From(s, i) == SubSeq(s, i + 1, Len(s))
Upto(s, i) == SubSeq(s, 1, i)

CharsOf(s) == {CharAt(s, i) : i \in 1..Len(s)}
\* the 1-based position in s of each character of s (the characters are distinct)
PositionIn(s) == [c \in CharsOf(s) |-> CHOOSE i \in 1..Len(s) : CharAt(s, i) = c]

LowPosition == PositionIn(AsciiLow)
HighPosition == PositionIn(AsciiHigh)
UpperPosition == PositionIn(UpperLetters)
LowerPosition == PositionIn(LowerLetters)
DigitPosition == PositionIn(Digits)

\* ord(c): "\n" and "\t" sort below every printable character
Ord(c) ==
    IF c = "\n" THEN 10
    ELSE IF c = "\t" THEN 9
    ELSE IF c \in DOMAIN LowPosition THEN 31 + LowPosition[c]
    ELSE 96 + HighPosition[c]

IsSpace(c) == c \in {" ", "\n", "\t"}
IsAlpha(c) == c \in DOMAIN UpperPosition \/ c \in DOMAIN LowerPosition
IsDigit(c) == c \in DOMAIN DigitPosition
DigitOf(c) == DigitPosition[c] - 1

UpperChar(c) == IF c \in DOMAIN LowerPosition THEN CharAt(UpperLetters, LowerPosition[c]) ELSE c
LowerChar(c) == IF c \in DOMAIN UpperPosition THEN CharAt(LowerLetters, UpperPosition[c]) ELSE c

RECURSIVE StrUpper(_)
StrUpper(s) == IF s = "" THEN "" ELSE UpperChar(CharAt(s, 1)) \o StrUpper(From(s, 1))

RECURSIVE StrLower(_)
StrLower(s) == IF s = "" THEN "" ELSE LowerChar(CharAt(s, 1)) \o StrLower(From(s, 1))

RECURSIVE LStrip(_)
LStrip(s) == IF s # "" /\ IsSpace(CharAt(s, 1)) THEN LStrip(From(s, 1)) ELSE s

RECURSIVE RStrip(_)
RStrip(s) == IF s # "" /\ IsSpace(CharAt(s, Len(s))) THEN RStrip(Upto(s, Len(s) - 1)) ELSE s

\* str.strip()
Strip(s) == RStrip(LStrip(s))

\* str.startswith(p)
StartsWith(s, p) == Len(p) <= Len(s) /\ Upto(s, Len(p)) = p

\* sub in s
StrIn(sub, s) == \E i \in 0..(Len(s) - Len(sub)) : SubSeq(s, i + 1, i + Len(sub)) = sub

\* s.replace(old, new), old non-empty: leftmost non-overlapping occurrences
RECURSIVE StrReplace(_, _, _)
StrReplace(s, old, new) ==
    IF Len(s) < Len(old) THEN s
    ELSE IF StartsWith(s, old) THEN new \o StrReplace(From(s, Len(old)), old, new)
    ELSE CharAt(s, 1) \o StrReplace(From(s, 1), old, new)

\* s.split(): the whitespace-delimited tokens, in order
RECURSIVE SplitAcc(_, _, _)
SplitAcc(s, word, acc) ==
    IF s = "" THEN (IF word = "" THEN acc ELSE Append(acc, word))
    ELSE IF IsSpace(CharAt(s, 1))
         THEN SplitAcc(From(s, 1), "", IF word = "" THEN acc ELSE Append(acc, word))
         ELSE SplitAcc(From(s, 1), word \o CharAt(s, 1), acc)
StrSplit(s) == SplitAcc(s, "", <<>>)

\* s < t for Python str: first differing code point, a proper prefix is smaller
RECURSIVE StrLess(_, _)
StrLess(s, t) ==
    IF t = "" THEN FALSE
    ELSE IF s = "" THEN TRUE
    ELSE IF CharAt(s, 1) = CharAt(t, 1) THEN StrLess(From(s, 1), From(t, 1))
    ELSE Ord(CharAt(s, 1)) < Ord(CharAt(t, 1))

SeqToSet(q) == {q[i] : i \in 1..Len(q)}

\* the list [f[1], ..., f[n]] as a tuple
AsList(f) == SubSeq(f, 1, Len(f))

-----------------------------------------------------------------------------
(***************************************************************************)
(* Python values held by tagged fields: None, a str, a number.             *)
(***************************************************************************)
None   == [k |-> "none"]
Str(s) == [k |-> "str", s |-> s]
Num(n) == [k |-> "num", n |-> n]

\* bool(v): None, '' and 0 are falsy
Truthy(v) ==
    CASE v.k = "none" -> FALSE
      [] v.k = "str"  -> v.s # ""
      [] v.k = "num"  -> v.n # 0

\* A tagged field: a dict over a subset of these keys, modelled as a function.
\* "absent" stands for a missing key (dict.get gives None).
EmptyField == [t \in {} |-> None]

\* the generic content tried before the text value
extract_value_ContentFirst(field) ==
    IF field = None \/ DOMAIN field = {} THEN None
    ELSE IF "content" \in DOMAIN field THEN field["content"]
    ELSE IF "valueString" \in DOMAIN field THEN field["valueString"]
    ELSE IF "valueNumber" \in DOMAIN field THEN field["valueNumber"]
    ELSE IF "valueDate" \in DOMAIN field THEN field["valueDate"]
    ELSE None

\* extract_value(field)
extract_value(field) ==
    IF field = None \/ DOMAIN field = {} THEN None
    ELSE IF "valueString" \in DOMAIN field THEN field["valueString"]
    ELSE IF "content" \in DOMAIN field THEN field["content"]
    ELSE IF "valueNumber" \in DOMAIN field THEN field["valueNumber"]
    ELSE IF "valueDate" \in DOMAIN field THEN field["valueDate"]
    ELSE None

-----------------------------------------------------------------------------
\* Python dicts whose order matters: a sequence of entries [key, val], keys distinct.
Entry(k, v) == [key |-> k, val |-> v]
DictKeys(d) == {d[i].key : i \in 1..Len(d)}
DictHas(d, k) == k \in DictKeys(d)
\* d.get(k, default)
DictGet(d, k, default) ==
    IF DictHas(d, k) THEN d[CHOOSE i \in 1..Len(d) : d[i].key = k].val ELSE default
\* d[k] = v: replaces the value in place, or appends a new entry
DictSet(d, k, v) ==
    IF DictHas(d, k)
    THEN AsList([i \in 1..Len(d) |-> IF d[i].key = k THEN Entry(k, v) ELSE d[i]])
    ELSE Append(d, Entry(k, v))

-----------------------------------------------------------------------------
(***************************************************************************)
(* Section segmenter: process_main_costs (src/main.py).                    *)
(***************************************************************************)

\* The 'Zone*' entries of a value object whose extracted value is truthy,
\* in the object's order, each with its extracted value.
RECURSIVE ZoneValues(_)
ZoneValues(value_object) ==
    IF value_object = <<>> THEN <<>>
    ELSE LET e == Head(value_object)
             rest == ZoneValues(Tail(value_object))
         IN  IF StartsWith(e.key, "Zone") /\ Truthy(extract_value(e.val))
             THEN <<Entry(e.key, extract_value(e.val))>> \o rest
             ELSE rest

\* has_rate_name alone
IsHeaderRow_RateOnly(value_object) ==
    DictHas(value_object, "RateName")
        /\ Truthy(extract_value(DictGet(value_object, "RateName", None)))

\* has_rate_name or has_cost_name
IsHeaderRow(value_object) ==
    \/ DictHas(value_object, "RateName")
          /\ Truthy(extract_value(DictGet(value_object, "RateName", None)))
    \/ DictHas(value_object, "CostName")
          /\ Truthy(extract_value(DictGet(value_object, "CostName", None)))

\* the dict built for a header row
NewRateCard(value_object) ==
    [ service_type  |-> extract_value(DictGet(value_object, "RateName", None)),
      cost_category |-> extract_value(DictGet(value_object, "CostName", None)),
      weight_unit   |-> extract_value(DictGet(value_object, "Weight", None)),
      zone_headers  |-> ZoneValues(value_object),
      pricing       |-> <<>> ]

\* current_rate_card and current_rate_card.get('pricing')
HasPricing(card) == card # None /\ card.pricing # <<>>

\* the append without the test of 'pricing'
AppendIfPriced_NoPricingTest(cards, card) == IF card # None THEN Append(cards, card) ELSE cards

\* rate_cards after "if current_rate_card and pricing: rate_cards.append(...)"
AppendIfPriced(cards, card) == IF HasPricing(card) THEN Append(cards, card) ELSE cards

\* item.get('valueObject', {})
ValueObjectOf(item) == IF "valueObject" \in DOMAIN item THEN item.valueObject ELSE <<>>

\* the price row appended whatever its zone prices
AfterDataRow_NoZoneTest(card, value_object) ==
    LET weight == extract_value(DictGet(value_object, "Weight", None))
        zone_prices == ZoneValues(value_object)
    IN  IF card # None /\ Truthy(weight)
        THEN [card EXCEPT !.pricing =
                 Append(@, [weight |-> weight, zone_prices |-> zone_prices])]
        ELSE card

\* the price row put in front of the earlier ones
AfterDataRow_Prepend(card, value_object) ==
    LET weight == extract_value(DictGet(value_object, "Weight", None))
        zone_prices == ZoneValues(value_object)
    IN  IF card # None /\ Truthy(weight) /\ zone_prices # <<>>
        THEN [card EXCEPT !.pricing =
                 <<[weight |-> weight, zone_prices |-> zone_prices]>> \o @]
        ELSE card

\* the current section after a data row
AfterDataRow(card, value_object) ==
    LET weight == extract_value(DictGet(value_object, "Weight", None))
        zone_prices == ZoneValues(value_object)
    IN  IF card # None /\ Truthy(weight) /\ zone_prices # <<>>
        THEN [card EXCEPT !.pricing =
                 Append(@, [weight |-> weight, zone_prices |-> zone_prices])]
        ELSE card

\* ---- inputs of the segmenter
StrField(s) == [valueString |-> Str(s)]
NumField(n) == [valueNumber |-> Num(n)]
Absent == [k |-> "absent"]

\* a value object from the fields that are present, in document order
MkObject(rate, cost, weight, zone1, zone2) ==
    (IF rate = Absent THEN <<>> ELSE <<Entry("RateName", rate)>>) \o
    (IF cost = Absent THEN <<>> ELSE <<Entry("CostName", cost)>>) \o
    (IF weight = Absent THEN <<>> ELSE <<Entry("Weight", weight)>>) \o
    (IF zone1 = Absent THEN <<>> ELSE <<Entry("Zone1", zone1)>>) \o
    (IF zone2 = Absent THEN <<>> ELSE <<Entry("Zone2", zone2)>>)

ObjectItem(vo) == [type |-> "object", valueObject |-> vo]

\* rows carrying name fields (present, empty or absent) over a unit and a zone label
NameItems ==
    { ObjectItem(MkObject(r, c, StrField("KG"), StrField("Zone 1"), Absent)) :
        r \in {Absent, StrField(""), StrField("DHL EXPRESS EXPORT")},
        c \in {Absent, StrField("Documents")} }
\* rows carrying a weight and prices (text, zero or absent)
PriceItems ==
    { ObjectItem(MkObject(Absent, Absent, w, z[1], z[2])) :
        w \in {Absent, NumField(0), StrField("0.5")},
        z \in {<<NumField(0), Absent>>, <<StrField("10"), NumField(0)>>} }
    \cup { ObjectItem(MkObject(Absent, Absent, StrField("1.0"), StrField("10"), StrField("20"))) }
ItemPool == NameItems \cup PriceItems \cup { [type |-> "string"] }

RECURSIVE SeqsUpTo(_, _)
SeqsUpTo(S, n) ==
    IF n = 0 THEN {<<>>}
    ELSE LET shorter == SeqsUpTo(S, n - 1)
         IN  shorter \cup {Append(q, x) : q \in {r \in shorter : Len(r) = n - 1}, x \in S}

\* two header rows and two price rows, for arrays up to two rows longer
LongItems ==
    { ObjectItem(MkObject(StrField("DHL EXPRESS EXPORT"), StrField("Documents"),
                          StrField("KG"), StrField("Zone 1"), Absent)),
      ObjectItem(MkObject(Absent, StrField("Documents"), StrField("KG"), StrField("Zone 1"), Absent)),
      ObjectItem(MkObject(Absent, Absent, StrField("0.5"), StrField("10"), NumField(0))),
      ObjectItem(MkObject(Absent, Absent, StrField("1.0"), StrField("10"), StrField("20"))) }
LongArrays == {a \in SeqsUpTo(LongItems, MaxRows + 2) : Len(a) > MaxRows}

FieldPool ==
    {None, [type |-> "string"]}
    \cup {[type |-> "array", valueArray |-> a] : a \in SeqsUpTo(ItemPool, MaxRows) \cup LongArrays}

\* main_costs_field.get('valueArray', [])
value_array == IF "valueArray" \in DOMAIN main_costs_field THEN main_costs_field.valueArray ELSE <<>>

\* process_main_costs is handed a field of FieldPool; the other components rest
SegInit ==
    /\ main_costs_field \in FieldPool
    /\ seg_idx = 1
    /\ current_rate_card = None
    /\ rate_cards = <<>>
    /\ seg_pc = "start"
    /\ main_costs = <<>>
    /\ carrier = None
    /\ zoning_matrix = <<>>
    /\ parsed_lookup = <<>>
    /\ set_order = <<>>
    /\ lane_rows = <<>>
    /\ sorted_keys = <<>>
    /\ matrix_rows = <<>>
    /\ expanded = <<>>
    /\ category_specs = <<>>
    /\ mx_pc = "idle"
    /\ original_name = None
    /\ name_list = <<>>
    /\ cost_idx = 1
    /\ best_score = [sign |-> -1, bits |-> <<1>>, ex |-> 0]
    /\ best_name = ""
    /\ cost_type = ""
    /\ cost_pc = "idle"
    /\ country = None
    /\ name_to_code = <<>>
    /\ country_code = ""
    /\ code_pc = "idle"
    /\ tagged = None
    /\ extracted = None
    /\ ext_pc = "idle"
    /\ find_order = <<>>
    /\ find_service = ""
    /\ find_result = ""
    /\ find_pc = "idle"
    /\ fill_input = None
    /\ fill_data = None
    /\ filled_count = 0
    /\ fill_pc = "idle"
    /\ steps_run = <<>>
    /\ json_written = FALSE
    /\ xlsx_written = FALSE
    /\ txt_written = FALSE
    /\ input_at = "input"
    /\ archive_folder = ""
    /\ archive_names = {}
    /\ archived_to = <<>>
    /\ pipe_pc = "idle"

\* lines 117-131: the guards before the loop
SegStart ==
    /\ seg_pc = "start"
    /\ seg_pc' = IF main_costs_field = None \/ main_costs_field.type # "array"
                    \/ value_array = <<>>
                 THEN "done" ELSE "loop"
    /\ UNCHANGED <<main_costs_field, seg_idx, current_rate_card, rate_cards, mx_vars, cost_vars, code_vars, ext_vars, find_vars, fill_vars, pipe_vars>>

\* lines 134-135: an item that is no object
SegSkip ==
    /\ seg_pc = "loop" /\ seg_idx <= Len(value_array)
    /\ value_array[seg_idx].type # "object"
    /\ seg_idx' = seg_idx + 1
    /\ UNCHANGED <<main_costs_field, current_rate_card, rate_cards, seg_pc, mx_vars, cost_vars, code_vars, ext_vars, find_vars, fill_vars, pipe_vars>>

\* lines 143-162: a header row closes the current section and opens a new one
SegHeader ==
    /\ seg_pc = "loop" /\ seg_idx <= Len(value_array)
    /\ value_array[seg_idx].type = "object"
    /\ LET value_object == ValueObjectOf(value_array[seg_idx])
       IN  /\ IsHeaderRow(value_object)
           /\ rate_cards' = AppendIfPriced(rate_cards, current_rate_card)
           /\ current_rate_card' = NewRateCard(value_object)
    /\ seg_idx' = seg_idx + 1
    /\ UNCHANGED <<main_costs_field, seg_pc, mx_vars, cost_vars, code_vars, ext_vars, find_vars, fill_vars, pipe_vars>>

\* lines 164-183: a data row
SegData ==
    /\ seg_pc = "loop" /\ seg_idx <= Len(value_array)
    /\ value_array[seg_idx].type = "object"
    /\ LET value_object == ValueObjectOf(value_array[seg_idx])
       IN  /\ ~IsHeaderRow(value_object)
           /\ current_rate_card' = AfterDataRow(current_rate_card, value_object)
    /\ seg_idx' = seg_idx + 1
    /\ UNCHANGED <<main_costs_field, rate_cards, seg_pc, mx_vars, cost_vars, code_vars, ext_vars, find_vars, fill_vars, pipe_vars>>

\* lines 185-200: the last section, and the return
SegFlush ==
    /\ seg_pc = "loop" /\ seg_idx > Len(value_array)
    /\ rate_cards' = AppendIfPriced(rate_cards, current_rate_card)
    /\ seg_pc' = "done"
    /\ UNCHANGED <<main_costs_field, seg_idx, current_rate_card, mx_vars, cost_vars, code_vars, ext_vars, find_vars, fill_vars, pipe_vars>>

SegNext == SegStart \/ SegSkip \/ SegHeader \/ SegData \/ SegFlush

-----------------------------------------------------------------------------
(***************************************************************************)
(* Field extractor: extract_value (src/main.py) on its own.                *)
(***************************************************************************)

\* the keys extract_value looks for, in the order of its tests
ValueKeys == <<"valueString", "content", "valueNumber", "valueDate">>

\* a tagged field from the keys that are present
TaggedField(type, valueString, content, valueNumber, valueDate) ==
    LET given == [ type |-> type, valueString |-> valueString, content |-> content,
                   valueNumber |-> valueNumber, valueDate |-> valueDate ]
    IN  [k \in {j \in DOMAIN given : given[j] # Absent} |-> given[k]]

\* no field, and every field over a type, a text, a content, a number and a date
TaggedPool ==
    {None} \cup
    { TaggedField(type, valueString, content, valueNumber, valueDate) :
        type \in {Absent, Str("string")},
        valueString \in {Absent, Str(""), Str("Zone 1")},
        content \in {Absent, Str("Zone 1\n")},
        valueNumber \in {Absent, Num(0), Num(10)},
        valueDate \in {Absent, Str("2024-01-01")} }

\* "if not field": None or an empty dict
NoField(f) == f = None \/ DOMAIN f = {}

\* the first i tests of lines 81-87 have failed
NoneOfFirst(f, i) == \A j \in 1..i : ValueKeys[j] \notin DOMAIN f

ExtInit ==
    /\ tagged \in TaggedPool
    /\ extracted = None
    /\ ext_pc = "input"
    /\ main_costs_field = None
    /\ seg_idx = 1
    /\ current_rate_card = None
    /\ rate_cards = <<>>
    /\ seg_pc = "idle"
    /\ main_costs = <<>>
    /\ carrier = None
    /\ zoning_matrix = <<>>
    /\ parsed_lookup = <<>>
    /\ set_order = <<>>
    /\ lane_rows = <<>>
    /\ sorted_keys = <<>>
    /\ matrix_rows = <<>>
    /\ expanded = <<>>
    /\ category_specs = <<>>
    /\ mx_pc = "idle"
    /\ original_name = None
    /\ name_list = <<>>
    /\ cost_idx = 1
    /\ best_score = [sign |-> -1, bits |-> <<1>>, ex |-> 0]
    /\ best_name = ""
    /\ cost_type = ""
    /\ cost_pc = "idle"
    /\ country = None
    /\ name_to_code = <<>>
    /\ country_code = ""
    /\ code_pc = "idle"
    /\ find_order = <<>>
    /\ find_service = ""
    /\ find_result = ""
    /\ find_pc = "idle"
    /\ fill_input = None
    /\ fill_data = None
    /\ filled_count = 0
    /\ fill_pc = "idle"
    /\ steps_run = <<>>
    /\ json_written = FALSE
    /\ xlsx_written = FALSE
    /\ txt_written = FALSE
    /\ input_at = "input"
    /\ archive_folder = ""
    /\ archive_names = {}
    /\ archived_to = <<>>
    /\ pipe_pc = "idle"

\* lines 77-78: no field
ExtNoField ==
    /\ ext_pc = "input"
    /\ NoField(tagged)
    /\ extracted' = extract_value(tagged)
    /\ ext_pc' = "done"
    /\ UNCHANGED <<tagged, seg_vars, mx_vars, cost_vars, code_vars, find_vars, fill_vars, pipe_vars>>

\* lines 81-82: the text value
ExtString ==
    /\ ext_pc = "input"
    /\ ~NoField(tagged)
    /\ ValueKeys[1] \in DOMAIN tagged
    /\ extracted' = extract_value(tagged)
    /\ ext_pc' = "done"
    /\ UNCHANGED <<tagged, seg_vars, mx_vars, cost_vars, code_vars, find_vars, fill_vars, pipe_vars>>

\* lines 83-84: the generic content
ExtContent ==
    /\ ext_pc = "input"
    /\ ~NoField(tagged)
    /\ NoneOfFirst(tagged, 1) /\ ValueKeys[2] \in DOMAIN tagged
    /\ extracted' = extract_value(tagged)
    /\ ext_pc' = "done"
    /\ UNCHANGED <<tagged, seg_vars, mx_vars, cost_vars, code_vars, find_vars, fill_vars, pipe_vars>>

\* lines 85-86: the numeric value
ExtNumber ==
    /\ ext_pc = "input"
    /\ ~NoField(tagged)
    /\ NoneOfFirst(tagged, 2) /\ ValueKeys[3] \in DOMAIN tagged
    /\ extracted' = extract_value(tagged)
    /\ ext_pc' = "done"
    /\ UNCHANGED <<tagged, seg_vars, mx_vars, cost_vars, code_vars, find_vars, fill_vars, pipe_vars>>

\* lines 87-88: the date value
ExtDate ==
    /\ ext_pc = "input"
    /\ ~NoField(tagged)
    /\ NoneOfFirst(tagged, 3) /\ ValueKeys[4] \in DOMAIN tagged
    /\ extracted' = extract_value(tagged)
    /\ ext_pc' = "done"
    /\ UNCHANGED <<tagged, seg_vars, mx_vars, cost_vars, code_vars, find_vars, fill_vars, pipe_vars>>

\* line 90: a field that carries none of the four
ExtNothing ==
    /\ ext_pc = "input"
    /\ ~NoField(tagged)
    /\ NoneOfFirst(tagged, 4)
    /\ extracted' = extract_value(tagged)
    /\ ext_pc' = "done"
    /\ UNCHANGED <<tagged, seg_vars, mx_vars, cost_vars, code_vars, find_vars, fill_vars, pipe_vars>>

ExtNext == ExtNoField \/ ExtString \/ ExtContent \/ ExtNumber \/ ExtDate \/ ExtNothing

\* extract_value on every field of TaggedPool
ExtSpec == ExtInit /\ [][ExtNext]_vars

-----------------------------------------------------------------------------
(***************************************************************************)
(* Python float() and sorted().                                            *)
(***************************************************************************)

\* int(s) for a string of decimal digits
RECURSIVE DigitsValue(_)
DigitsValue(s) ==
    IF s = "" THEN 0
    ELSE 10 * DigitsValue(Upto(s, Len(s) - 1)) + DigitOf(CharAt(s, Len(s)))

AllDigits(s) == \A i \in 1..Len(s) : IsDigit(CharAt(s, i))

RECURSIVE Pow10(_)
Pow10(n) == IF n = 0 THEN 1 ELSE 10 * Pow10(n - 1)

\* the longest prefix of s made of digits
RECURSIVE DigitPrefix(_)
DigitPrefix(s) ==
    IF s # "" /\ IsDigit(CharAt(s, 1)) THEN CharAt(s, 1) \o DigitPrefix(From(s, 1)) ELSE ""

\* A float is [kind |-> "num", num |-> n, den |-> d] (the rational n/d, d > 0),
\* [kind |-> "inf", num |-> +1 or -1, den |-> 1], or [kind |-> "nan", ...];
\* [kind |-> "bad"] stands for ValueError.
Float(n, d) == [kind |-> "num", num |-> n, den |-> d]
BadFloat == [kind |-> "bad", num |-> 0, den |-> 1]

\* mant * 10^ex as a float
Scale(mant, ex) ==
    IF ex >= 0 THEN Float(mant * Pow10(ex), 1) ELSE Float(mant, Pow10(0 - ex))

\* the exponent digits ed, of sign neg, after a mantissa of digits with so many
\* of them behind the point
Scaled(digits, places, neg, ed) ==
    IF ed = "" \/ ~AllDigits(ed) THEN BadFloat
    ELSE Scale(DigitsValue(digits),
               (IF neg THEN 0 - DigitsValue(ed) ELSE DigitsValue(ed)) - places)

\* r3 is the text after the letter e
ExponentPart(digits, places, r3) ==
    Scaled(digits, places, r3 # "" /\ CharAt(r3, 1) = "-",
           IF r3 # "" /\ CharAt(r3, 1) \in {"+", "-"} THEN From(r3, 1) ELSE r3)

\* ip and fp are the digits before and after the point, r2 the text after them
MantissaPart(ip, fp, r2) ==
    IF ip \o fp = "" THEN BadFloat
    ELSE IF r2 = "" THEN Scale(DigitsValue(ip \o fp), 0 - Len(fp))
    ELSE IF CharAt(r2, 1) \notin {"e", "E"} THEN BadFloat
    ELSE ExponentPart(ip \o fp, Len(fp), From(r2, 1))

\* r1 is the text after the integer digits ip
FractionPart(ip, r1) ==
    IF r1 # "" /\ CharAt(r1, 1) = "."
    THEN MantissaPart(ip, DigitPrefix(From(r1, 1)),
                      From(r1, 1 + Len(DigitPrefix(From(r1, 1)))))
    ELSE MantissaPart(ip, "", r1)

IntegerPart(s, ip) == FractionPart(ip, From(s, Len(ip)))

\* float(s) for an unsigned decimal literal: digits [. digits] [e|E [+|-] digits]
ParseUnsigned(s) == IntegerPart(s, DigitPrefix(s))

WithSign(sign, u) == IF u.kind = "bad" THEN BadFloat ELSE Float(sign * u.num, u.den)

\* the words inf, infinity and nan in any letter case, or a decimal literal
WordOrLiteral(sign, word, body) ==
    IF word \in {"inf", "infinity"} THEN [kind |-> "inf", num |-> sign, den |-> 1]
    ELSE IF word = "nan" THEN [kind |-> "nan", num |-> 0, den |-> 1]
    ELSE WithSign(sign, ParseUnsigned(body))

SignedPart(sign, body) == WordOrLiteral(sign, StrLower(body), body)

\* t is the text without its surrounding whitespace
StrippedFloat(t) ==
    SignedPart(IF t # "" /\ CharAt(t, 1) = "-" THEN 0 - 1 ELSE 1,
               IF t # "" /\ CharAt(t, 1) \in {"+", "-"} THEN From(t, 1) ELSE t)

\* float(s) for a str: surrounding whitespace and a sign are accepted, and the
\* words inf, infinity and nan in any letter case (digit-group underscores are
\* not modelled: no text of the pools holds one)
ParseFloat(s) == StrippedFloat(Strip(s))

FloatEq(x, y) ==
    /\ x.kind # "nan" /\ y.kind # "nan"
    /\ IF x.kind = "inf" \/ y.kind = "inf"
       THEN x.kind = y.kind /\ x.num = y.num
       ELSE x.num * y.den = y.num * x.den
FloatLess(x, y) ==
    /\ x.kind # "nan" /\ y.kind # "nan"
    /\ IF x.kind = "inf" THEN x.num < 0 /\ ~(y.kind = "inf" /\ y.num < 0)
       ELSE IF y.kind = "inf" THEN y.num > 0
       ELSE x.num * y.den < y.num * x.den

\* A sort key is a tuple of atoms; an atom is a float or [kind |-> "str", s |-> text].
StrAtom(s) == [kind |-> "str", s |-> s]
AtomEq(x, y) == IF x.kind = "str" THEN y.kind = "str" /\ x.s = y.s
                ELSE y.kind # "str" /\ FloatEq(x, y)
AtomLess(x, y) == IF x.kind = "str" THEN StrLess(x.s, y.s) ELSE FloatLess(x, y)

\* k1 < k2 for tuples: decided by the first position whose items are not equal
RECURSIVE KeyLess(_, _)
KeyLess(k1, k2) ==
    IF k2 = <<>> THEN FALSE
    ELSE IF k1 = <<>> THEN TRUE
    ELSE IF AtomEq(Head(k1), Head(k2)) THEN KeyLess(Tail(k1), Tail(k2))
    ELSE AtomLess(Head(k1), Head(k2))

\* sorted(): CPython's list.sort on fewer than 64 items is one binary insertion
\* sort after the leading run, and < on the keys is the only comparison it makes.
\* The items sorted are records [key |-> tuple, item |-> value].
\* The place where the pivot goes among the sorted items q[1..hi]:
RECURSIVE BinaryPlace(_, _, _, _)
BinaryPlace(q, pivot, lo, hi) ==
    IF lo >= hi THEN lo
    ELSE LET p == lo + ((hi - lo) \div 2)
         IN  IF KeyLess(pivot.key, q[p + 1].key)
             THEN BinaryPlace(q, pivot, lo, p)
             ELSE BinaryPlace(q, pivot, p + 1, hi)

InsertAt(q, pos, x) == SubSeq(q, 1, pos) \o <<x>> \o SubSeq(q, pos + 1, Len(q))

RECURSIVE BinarySort(_, _)
BinarySort(sorted, rest) ==
    IF rest = <<>> THEN sorted
    ELSE BinarySort(InsertAt(sorted, BinaryPlace(sorted, Head(rest), 0, Len(sorted)),
                             Head(rest)),
                    Tail(rest))

Reverse(q) == AsList([i \in 1..Len(q) |-> q[Len(q) + 1 - i]])

\* end of the leading run: strictly descending, or non-descending
RECURSIVE RunEnd(_, _, _)
RunEnd(q, i, descending) ==
    IF i > Len(q) THEN i - 1
    ELSE IF descending = KeyLess(q[i].key, q[i - 1].key) THEN RunEnd(q, i + 1, descending)
    ELSE i - 1

ListSort(list) ==
    LET q == AsList(list)
    IN  IF Len(q) < 2 THEN q
        ELSE LET descending == KeyLess(q[2].key, q[1].key)
                 n   == RunEnd(q, 3, descending)
                 run == IF descending THEN Reverse(SubSeq(q, 1, n)) ELSE SubSeq(q, 1, n)
             IN  BinarySort(run, SubSeq(q, n + 1, Len(q)))

Keyed(k, x) == [key |-> k, item |-> x]
Items(q) == AsList([i \in 1..Len(q) |-> q[i].item])

\* the orders in which a set may be iterated
Orderings(S) ==
    {q \in [1..Cardinality(S) -> S] : \A i, j \in 1..Cardinality(S) : i # j => q[i] # q[j]}

-----------------------------------------------------------------------------
(***************************************************************************)
(* Matrix builder: build_matrix_main_costs (src/create_table.py).          *)
(* A section is the dict built by process_main_costs.  Service names, zone *)
(* labels and carrier text are str (or None); weights, prices, categories  *)
(* and units are Python values.                                            *)
(***************************************************************************)

\* (x or '') for a str or None
OrText(v) == IF Truthy(v) THEN v.s ELSE ""
\* x or ''
OrEmpty(v) == IF Truthy(v) THEN v ELSE Str("")

\* _zone_has_letters(zone_name)
ZoneSuffix(s) == IF StartsWith(StrUpper(s), "ZONE ") THEN Strip(From(s, 5)) ELSE s
\* any letter of the label, "Zone " included
_zone_has_letters_WholeLabel(zone_name) ==
    \E i \in 1..Len(Strip(zone_name)) : IsAlpha(CharAt(Strip(zone_name), i))

_zone_has_letters(zone_name) ==
    LET s == Strip(zone_name)
    IN  IF s = "" THEN FALSE
        ELSE \E i \in 1..Len(ZoneSuffix(s)) : IsAlpha(CharAt(ZoneSuffix(s), i))

\* the float() call that classifies a zone suffix as numeric
ZoneFloat(suffix) == ParseFloat(suffix)

\* _zone_sort_key(zone_name), as a tuple of atoms
SuffixKey(zone_name, f) ==
    IF f.kind # "bad" THEN <<Float(0, 1), f>>
    ELSE <<Float(1, 1), Float(IF _zone_has_letters(zone_name) THEN 0 ELSE 1, 1)>>
\* the empty label keyed below every number
StrippedZoneKey_EmptyFirst(zone_name, s) ==
    IF s = "" THEN <<Float(0, 1), Float(0 - 1, 1)>>
    ELSE SuffixKey(zone_name, ZoneFloat(ZoneSuffix(s)))
StrippedZoneKey(zone_name, s) ==
    IF s = "" THEN <<Float(1, 1), Float(0, 1)>>
    ELSE SuffixKey(zone_name, ZoneFloat(ZoneSuffix(s)))
_zone_sort_key(zone_name) == StrippedZoneKey(zone_name, Strip(zone_name))

\* float(x) for a weight: a str is parsed, a number converts, None is a TypeError
WeightFloat(w) ==
    CASE w.k = "str" -> ParseFloat(w.s)
      [] w.k = "num" -> Float(w.n, 1)
      [] OTHER       -> BadFloat

\* the truthy weights of a section's price rows (weights_set)
WeightSet(rate_card) ==
    {rate_card.pricing[i].weight : i \in 1..Len(rate_card.pricing)}
        \ {None, Str(""), Num(0)}

AllParse(weights) == \A w \in weights : WeightFloat(w).kind # "bad"

\* sorted(weights, key=float), falling back to sorted(weights) on ValueError:
\* the set is iterated in some order and the sort is stable, so weights with
\* equal keys may come out in either order.
SortedWeights(weights) ==
    { Items(ListSort([i \in 1..Len(o) |->
                         Keyed(IF AllParse(weights) THEN <<WeightFloat(o[i])>>
                               ELSE <<StrAtom(o[i].s)>>, o[i])])) :
        o \in Orderings(weights) }

\* the unit as it is, None when absent
UnitOf_NoDefault(rate_card) == rate_card.weight_unit

\* line 315: rate_card.get('weight_unit') or 'KG'
UnitOf(rate_card) ==
    IF Truthy(rate_card.weight_unit) THEN rate_card.weight_unit ELSE Str("KG")

\* lines 313-342 on sets: per category, in order of first appearance, the unit
\* of the first section and the union of the weights
\* a category seen again keeps the weights of its first section
RECURSIVE SpecSets_NoMerge(_, _)
SpecSets_NoMerge(sections, acc) ==
    IF sections = <<>> THEN acc
    ELSE LET rate_card == Head(sections)
             cost_category == OrEmpty(rate_card.cost_category)
         IN  SpecSets_NoMerge(Tail(sections),
                 IF \E i \in 1..Len(acc) : acc[i].cat = cost_category
                 THEN acc
                 ELSE Append(acc, [cat |-> cost_category, unit |-> UnitOf(rate_card),
                                   weights |-> WeightSet(rate_card)]))
RECURSIVE SpecSets(_, _)
SpecSets(sections, acc) ==
    IF sections = <<>> THEN acc
    ELSE LET rate_card == Head(sections)
             cost_category == OrEmpty(rate_card.cost_category)
             weight_unit == UnitOf(rate_card)
             seen == \E i \in 1..Len(acc) : acc[i].cat = cost_category
         IN  SpecSets(Tail(sections),
                 IF seen
                 THEN AsList([i \in 1..Len(acc) |->
                          IF acc[i].cat = cost_category
                          THEN [acc[i] EXCEPT !.weights = @ \cup WeightSet(rate_card)]
                          ELSE acc[i]])
                 ELSE Append(acc, [cat |-> cost_category, unit |-> weight_unit,
                                   weights |-> WeightSet(rate_card)]))

\* the category_specs the builder may return: each weight set in a sorted order
RECURSIVE SpecChoices(_)
SpecChoices(acc) ==
    IF acc = <<>> THEN {<<>>}
    ELSE { <<[cat |-> Head(acc).cat, unit |-> Head(acc).unit, weights |-> w]>> \o rest :
             w \in SortedWeights(Head(acc).weights), rest \in SpecChoices(Tail(acc)) }

CategorySpecs(sections) == SpecChoices(SpecSets(sections, <<>>))

\* lines 324-325, 335-336: float() failed on a weight and sorted(weights) is
\* called without a key: a str and a number do not compare (TypeError)
SortRaises(weights) == ~AllParse(weights) /\ \E v, w \in weights : v.k # w.k

\* lines 313-342 raise: the weights of a section, or the weights merged into
\* its category, cannot be sorted
RECURSIVE RaisesFrom(_, _)
RaisesFrom(sections, acc) ==
    IF sections = <<>> THEN FALSE
    ELSE LET rate_card == Head(sections)
             after == SpecSets(<<rate_card>>, acc)
         IN  \/ SortRaises(WeightSet(rate_card))
             \/ \E i \in 1..Len(after) :
                   /\ after[i].cat = OrEmpty(rate_card.cost_category)
                   /\ SortRaises(after[i].weights)
             \/ RaisesFrom(Tail(sections), after)

Raises(sections) == RaisesFrom(sections, <<>>)

\* lines 357-365: zone_price_matrix of one section, zone_name -> {weight -> price}
RECURSIVE AddZonePrices(_, _, _, _)
AddZonePrices(matrix, zone_headers, weight, zone_prices) ==
    IF zone_prices = <<>> THEN matrix
    ELSE LET e == Head(zone_prices)
             zone_name == DictGet(zone_headers, e.key, Str(e.key)).s
             old == DictGet(matrix, zone_name, <<>>)
         IN  AddZonePrices(DictSet(matrix, zone_name, DictSet(old, weight, e.val)),
                           zone_headers, weight, Tail(zone_prices))

RECURSIVE ZonePriceMatrix(_, _, _)
ZonePriceMatrix(matrix, zone_headers, pricing) ==
    IF pricing = <<>> THEN matrix
    ELSE ZonePriceMatrix(
            AddZonePrices(matrix, zone_headers, Head(pricing).weight,
                          Head(pricing).zone_prices),
            zone_headers, Tail(pricing))

\* lines 370-378: the row created for a new (service_type, zone_name)
NewLane(service_type, zone_name) ==
    [ Origin      |-> IF StrIn("import", StrLower(service_type)) THEN zone_name ELSE "",
      Destination |-> IF StrIn("export", StrLower(service_type)) THEN zone_name ELSE "",
      Service     |-> service_type,
      Matrix_zone |-> IF _zone_has_letters(zone_name) THEN zone_name ELSE "",
      Lane        |-> 0,
      costs       |-> <<>> ]

\* lines 380-381: row[(cost_category, weight)] = price for every weight
RECURSIVE SetCosts(_, _, _)
SetCosts(costs, cost_category, weight_prices) ==
    IF weight_prices = <<>> THEN costs
    ELSE SetCosts(DictSet(costs, <<cost_category, Head(weight_prices).key>>,
                          Head(weight_prices).val),
                  cost_category, Tail(weight_prices))

\* lines 367-381 for one section
RECURSIVE AddLanes(_, _, _, _)
AddLanes(lanes, service_type, cost_category, matrix) ==
    IF matrix = <<>> THEN lanes
    ELSE LET zone_name == Head(matrix).key
             key == <<service_type, zone_name>>
             row == DictGet(lanes, key, NewLane(service_type, zone_name))
         IN  AddLanes(DictSet(lanes, key,
                              [row EXCEPT !.costs =
                                  SetCosts(@, cost_category, Head(matrix).val)]),
                      service_type, cost_category, Tail(matrix))

\* lines 346-381: lane_rows, (service_type, zone_name) -> row, in insertion order
RECURSIVE LaneRows(_, _)
LaneRows(sections, lanes) ==
    IF sections = <<>> THEN lanes
    ELSE LET rate_card == Head(sections)
         IN  LaneRows(Tail(sections),
                 AddLanes(lanes, Strip(OrText(rate_card.service_type)),
                          OrEmpty(rate_card.cost_category),
                          ZonePriceMatrix(<<>>, rate_card.zone_headers, rate_card.pricing)))

\* global_country(metadata): carrier_text is metadata.get('carrier'), a str or None
global_country(carrier_text) ==
    LET parts == StrSplit(Strip(StrReplace(OrText(carrier_text), "\n", " ")))
    IN  IF parts = <<>> THEN "" ELSE parts[Len(parts)]

\* line 387: the entries of the dict lane_rows sorted by
\* (service_type, _zone_sort_key(zone_name))
SortedLanes(lanes) ==
    Items(ListSort([i \in 1..Len(lanes) |->
        Keyed(<<StrAtom(lanes[i].key[1])>> \o _zone_sort_key(lanes[i].key[2]),
              lanes[i])]))

KeysOf(entries) == AsList([i \in 1..Len(entries) |-> entries[i].key])
ValuesOf(entries) == AsList([i \in 1..Len(entries) |-> entries[i].val])

\* the carrier's last word written over Origin and Destination of every lane
PostFill_Overwrite(row, carrier_last) ==
    IF carrier_last # ""
    THEN [row EXCEPT !.Origin = carrier_last, !.Destination = carrier_last]
    ELSE row

\* the post-fill without the branch of the domestic service
PostFill_NoDomestic(row, carrier_last) ==
    IF Strip(row.Matrix_zone) = "" /\ carrier_last # ""
    THEN [row EXCEPT !.Origin = IF Strip(@) = "" THEN carrier_last ELSE @,
                     !.Destination = IF Strip(@) = "" THEN carrier_last ELSE @]
    ELSE row

\* lines 393-406: Origin/Destination from the carrier's last word
PostFill(row, carrier_last) ==
    IF Strip(row.Service) = "DHL EXPRESS DOMESTIC"
    THEN IF carrier_last # ""
         THEN [row EXCEPT !.Origin = carrier_last, !.Destination = carrier_last]
         ELSE row
    ELSE IF Strip(row.Matrix_zone) = "" /\ carrier_last # ""
    THEN [row EXCEPT !.Origin = IF Strip(@) = "" THEN carrier_last ELSE @,
                     !.Destination = IF Strip(@) = "" THEN carrier_last ELSE @]
    ELSE row

\* lines 388-391: Lane # counts the rows from 1
Number(rows) == AsList([i \in 1..Len(rows) |-> [rows[i] EXCEPT !.Lane = i]])

PostFillAll(rows, carrier_last) ==
    AsList([i \in 1..Len(rows) |-> PostFill(rows[i], carrier_last)])

\* lines 384-408: the rows built from the sorted entries of lane_rows
RowsOf(sorted, carrier_text) ==
    Number(PostFillAll(ValuesOf(sorted), global_country(carrier_text)))

-----------------------------------------------------------------------------
(***************************************************************************)
(* Zoning expander: parse_zoning_matrix, _find_matrix_for_service and      *)
(* expand_main_costs_lanes_by_zoning (src/create_table.py).                *)
(* A zoning row is a dict from column name to a str or None.               *)
(***************************************************************************)

\* re.match(r'^DestinationZone\d+$', k)
IsDestKey(k) ==
    /\ StartsWith(k, "DestinationZone")
    /\ Len(k) > Len("DestinationZone")
    /\ AllDigits(From(k, Len("DestinationZone")))

\* int(re.search(r'\d+', k).group()) for such a key
DestKeyNumber(k) == DigitsValue(From(k, Len("DestinationZone")))

\* the keys in the order of the row
SortedDestKeys_RowOrder(keys) == keys

\* lines 155-158: the DestinationZoneN keys of a header row by numeric suffix
SortedDestKeys(keys) ==
    Items(ListSort([i \in 1..Len(keys) |->
                       Keyed(<<Float(DestKeyNumber(keys[i]), 1)>>, keys[i])]))
DestKeys(row) == SortedDestKeys(SelectSeq(KeysOf(row), IsDestKey))

\* str(x) for a str or None
StrOf(v) == IF v.k = "none" THEN "None" ELSE v.s

\* lines 174-177: result[key].append((origin_zone, dest_zone_num))
AppendPair(result, key, pair) == DictSet(result, key, Append(DictGet(result, key, <<>>), pair))

\* lines 168-177: one cell of a data row
AddCell(result, name, origin_zone, dest_zone_num, cell_letter) ==
    IF dest_zone_num = "" \/ cell_letter = "" THEN result
    ELSE AppendPair(result, <<name, StrUpper(cell_letter)>>, <<origin_zone, dest_zone_num>>)

\* lines 165-177: the pairs of one data row appended to the lookup
RECURSIVE AddPairs(_, _, _, _, _, _)
AddPairs(result, row, name, origin_zone, dest_cols, header_dest_nums) ==
    IF dest_cols = <<>> THEN result
    ELSE AddPairs(AddCell(result, name, origin_zone, Head(header_dest_nums),
                          Strip(OrText(DictGet(row, Head(dest_cols), None)))),
                  row, name, origin_zone, Tail(dest_cols), Tail(header_dest_nums))

\* line 160: header_dest_nums
HeaderDestNums(row, keys) ==
    AsList([i \in 1..Len(keys) |-> Strip(StrOf(DictGet(row, keys[i], Str(""))))])

\* lines 149-177: one row of the loop; the state of the loop is
\* [result, dest_cols, header_dest_nums, current_matrix_name], "" for None
ParseRow(st, row, matrix_name, origin_zone) ==
    IF matrix_name # ""
    THEN [st EXCEPT !.dest_cols = DestKeys(row),
                    !.header_dest_nums = HeaderDestNums(row, DestKeys(row)),
                    !.current_matrix_name = matrix_name]
    ELSE IF st.current_matrix_name # "" /\ origin_zone # "" /\ st.dest_cols # <<>>
    THEN [st EXCEPT !.result = AddPairs(@, row, st.current_matrix_name, origin_zone,
                                        st.dest_cols, st.header_dest_nums)]
    ELSE st

\* the loop of parse_zoning_matrix
RECURSIVE ParseRows(_, _)
ParseRows(rows, st) ==
    IF rows = <<>> THEN st.result
    ELSE ParseRows(Tail(rows),
                   ParseRow(st, Head(rows),
                            Strip(OrText(DictGet(Head(rows), "MatrixName", None))),
                            Strip(OrText(DictGet(Head(rows), "OriginZone", None)))))

\* parse_zoning_matrix(zoning_matrix): (matrix_name, zone_letter) -> list of pairs
parse_zoning_matrix(rows) ==
    ParseRows(rows, [result |-> <<>>, dest_cols |-> <<>>, header_dest_nums |-> <<>>,
                     current_matrix_name |-> ""])

\* _matrix_zone_to_letter(matrix_zone)
StrippedZoneLetter(s) ==
    IF s = "" THEN ""
    ELSE IF StartsWith(StrUpper(s), "ZONE ") THEN StrUpper(Strip(From(s, 5)))
    ELSE StrUpper(s)
_matrix_zone_to_letter(matrix_zone) == StrippedZoneLetter(Strip(matrix_zone))

\* _main_words(text)
_main_words(text) == SeqToSet(StrSplit(StrUpper(text))) \ {"ZONE", "MATRIX"}

\* matrix_names = {mn for (mn, _) in zoning_lookup}
MatrixNames(lookup) == {lookup[i].key[1] : i \in 1..Len(lookup)}

\* the three tests of _find_matrix_for_service, service already stripped
MatchesDirect(mn, service) == StrIn(service, mn) \/ StrIn(mn, service)
EitherIn(a, b) == StrIn(a, b) \/ StrIn(b, a)
MatchesNormalized(mn, service) ==
    EitherIn(service, Strip(StrReplace(mn, " ZONE MATRIX", "")))
IsWordSubset(matrix_words, service_words) ==
    matrix_words # {} /\ matrix_words \subseteq service_words
\* the containment tested the wrong way round
MatchesWords_Reversed(mn, service) ==
    IsWordSubset(_main_words(service), _main_words(StrReplace(mn, " ZONE MATRIX", "")))
MatchesWords(mn, service) ==
    IsWordSubset(_main_words(StrReplace(mn, " ZONE MATRIX", "")), _main_words(service))

\* the first name of the iteration order among those that pass a test, ""
\* when none does
FirstIn(order, passing) ==
    IF \E i \in 1..Len(order) : order[i] \in passing
    THEN order[CHOOSE i \in 1..Len(order) :
                  order[i] \in passing /\ \A j \in 1..(i - 1) : order[j] \notin passing]
    ELSE ""

\* _find_matrix_for_service(zoning_lookup, service); "" stands for None.
\* order is the order in which this run iterates the set matrix_names.
\* the main-words tier consulted before the two substring tiers
FirstOfTiers_WordsFirst(direct, normalized, words) ==
    IF words # "" THEN words ELSE IF direct # "" THEN direct ELSE normalized
FirstOfTiers(direct, normalized, words) ==
    IF direct # "" THEN direct ELSE IF normalized # "" THEN normalized ELSE words
StrippedService(order, service) ==
    IF service = "" THEN ""
    ELSE FirstOfTiers(
             FirstIn(order, {mn \in SeqToSet(order) : MatchesDirect(mn, service)}),
             FirstIn(order, {mn \in SeqToSet(order) : MatchesNormalized(mn, service)}),
             FirstIn(order, {mn \in SeqToSet(order) : MatchesWords(mn, service)}))
_find_matrix_for_service(order, service_text) == StrippedService(order, Strip(service_text))

\* lines 244-265: the pairs a row expands to; <<>> keeps the row as it is
PairsOf(lookup, matrix_name, zone_letter) ==
    IF matrix_name = "" THEN <<>> ELSE DictGet(lookup, <<matrix_name, zone_letter>>, <<>>)
PairsOfLetter(lookup, order, service, zone_letter) ==
    IF zone_letter = "" THEN <<>>
    ELSE PairsOf(lookup, _find_matrix_for_service(order, service), zone_letter)
PairsOfZone(lookup, order, service, matrix_zone) ==
    IF matrix_zone = "" THEN <<>>
    ELSE PairsOfLetter(lookup, order, service, _matrix_zone_to_letter(matrix_zone))
PairsFor(row, lookup, order) ==
    PairsOfZone(lookup, order, Strip(row.Service), Strip(row.Matrix_zone))

\* the clones in the reverse order of the pairs
Clones_Reversed(row, pairs) ==
    AsList([i \in 1..Len(pairs) |->
        [row EXCEPT !.Origin = "Zone " \o pairs[Len(pairs) + 1 - i][1],
                    !.Destination = "Zone " \o pairs[Len(pairs) + 1 - i][2]]])

\* the clones without the matrix zone of the row
Clones_ClearZone(row, pairs) ==
    AsList([i \in 1..Len(pairs) |->
        [row EXCEPT !.Origin = "Zone " \o pairs[i][1],
                    !.Destination = "Zone " \o pairs[i][2],
                    !.Matrix_zone = ""]])

\* lines 267-271: one clone of the row per pair
Clones(row, pairs) ==
    AsList([i \in 1..Len(pairs) |->
        [row EXCEPT !.Origin = IF pairs[i][1] # "" THEN "Zone " \o pairs[i][1] ELSE "",
                    !.Destination = IF pairs[i][2] # "" THEN "Zone " \o pairs[i][2] ELSE ""]])

\* a row without pairs dropped instead of kept
RowOrClones_DropUnmatched(row, pairs) == Clones(row, pairs)

\* a row without pairs kept without its matrix zone
RowOrClones_ClearZone(row, pairs) ==
    IF pairs = <<>> THEN <<[row EXCEPT !.Matrix_zone = ""]>> ELSE Clones(row, pairs)

\* lines 263-271: the row as it is, or its clones
RowOrClones(row, pairs) == IF pairs = <<>> THEN <<row>> ELSE Clones(row, pairs)

\* lines 244-262: the pairs of every row, in list order
RowPairs(rows, lookup, order) ==
    AsList([i \in 1..Len(rows) |-> PairsFor(rows[i], lookup, order)])

\* lines 242-271: the expanded list before renumbering
RECURSIVE ExpandRows(_, _)
ExpandRows(rows, pairs) ==
    IF rows = <<>> THEN <<>>
    ELSE RowOrClones(Head(rows), Head(pairs)) \o ExpandRows(Tail(rows), Tail(pairs))

\* the renumbering left out
Renumber_Stale(rows) == rows

\* lines 273-275: Re-number Lane #
Renumber(rows) == AsList([i \in 1..Len(rows) |-> [rows[i] EXCEPT !.Lane = i]])

\* lines 236-277 once the lookup is parsed and the pairs of the rows are found
ExpandWith(rows, zoning_lookup, pairs) ==
    IF rows = <<>> THEN rows
    ELSE IF zoning_lookup = <<>> THEN rows
    ELSE Renumber(ExpandRows(rows, pairs))

ExpandParsed(rows, zoning_lookup, order) ==
    ExpandWith(rows, zoning_lookup, RowPairs(rows, zoning_lookup, order))

\* expand_main_costs_lanes_by_zoning(matrix_rows, zoning_matrix)
expand_main_costs_lanes_by_zoning(rows, rawrows, order) ==
    ExpandParsed(rows, parse_zoning_matrix(rawrows), order)

\* lines 248-265 and 275: a row appended as it is is the caller's own dict, so
\* the renumbering also writes its Lane # in the list the expander was handed
KeptOrNot(row, pairs, done) == IF pairs = <<>> THEN [row EXCEPT !.Lane = done + 1] ELSE row
Advance(pairs, done) == IF pairs = <<>> THEN done + 1 ELSE done + Len(pairs)
RECURSIVE KeptInPlace(_, _, _)
KeptInPlace(rows, pairs, done) ==
    IF rows = <<>> THEN <<>>
    ELSE <<KeptOrNot(Head(rows), Head(pairs), done)>>
         \o KeptInPlace(Tail(rows), Tail(pairs), Advance(Head(pairs), done))

\* the list handed to the expander, as the call leaves it
ArgumentAfter(rows, zoning_lookup, pairs) ==
    IF rows = <<>> THEN rows
    ELSE IF zoning_lookup = <<>> THEN rows
    ELSE KeptInPlace(rows, pairs, 0)

-----------------------------------------------------------------------------
(***************************************************************************)
(* Inputs and actions of the matrix builder and the zoning expander.       *)
(***************************************************************************)

\* a price row with one price per zone key
PriceRow(weight, zone_keys) ==
    [ weight |-> weight,
      zone_prices |-> AsList([i \in 1..Len(zone_keys) |-> Entry(zone_keys[i], Str("10"))]) ]

\* a section whose zone_headers name Zone1 and Zone2 (a label Absent: no header)
MkSection(service, category, unit, label1, label2, pricing) ==
    [ service_type  |-> service,
      cost_category |-> category,
      weight_unit   |-> unit,
      zone_headers  |-> (IF label1 = Absent THEN <<>> ELSE <<Entry("Zone1", label1)>>) \o
                        (IF label2 = Absent THEN <<>> ELSE <<Entry("Zone2", label2)>>),
      pricing       |-> pricing ]

\* one export service, two categories, zones 1 and 2, weights 0.5 and 1.0
ExportSections ==
    { MkSection(Str("DHL EXPRESS EXPORT"), Str("Documents"), Str("KG"),
                Str("Zone 1"), Str("Zone 2"),
                <<PriceRow(Str("0.5"), <<"Zone1", "Zone2">>),
                  PriceRow(Str("1.0"), <<"Zone1", "Zone2">>)>>),
      MkSection(Str("DHL EXPRESS EXPORT"), Str("Non-Documents"), Str("KG"),
                Str("Zone 1"), Str("Zone 2"),
                <<PriceRow(Str("1.0"), <<"Zone2", "Zone1">>),
                  PriceRow(Str("0.5"), <<"Zone1", "Zone2">>)>>) }

\* mixed zone labels: numeric, lettered, empty, blank, without header
LabelSections ==
    { MkSection(Str("DHL EXPRESS EXPORT"), Str("Documents"), None, h[1], h[2],
                <<PriceRow(Str("0.5"), <<"Zone1", "Zone2">>)>>) :
        h \in { <<Str("Zone 10"), Str("Zone 2")>>,
                <<Str("Zone A"), Str("Zone 1")>>,
                <<Str("Zone 1e1"), Str("Zone 20")>>,
                <<Str(""), Str("Zone 3")>> } }
    \cup { MkSection(None, Str("Documents"), None, Str(" "), Absent,
                     <<PriceRow(Str("0.5"), <<"Zone1", "Zone2">>)>>) }

\* other services over a matrix-coded zone and a numbered one
CodedSections ==
    { MkSection(sv, Str("Non-Documents"), Str("LB"), Str("Zone E"), Str("Zone 1"),
                <<PriceRow(Str("2"), <<"Zone1", "Zone2">>)>>) :
        sv \in { Str("DHL EXPRESS WORLDWIDE THIRD COUNTRY"), Str("DHL EXPRESS DOMESTIC"),
                 Str("DHL EXPRESS WORLDWIDE IMPORT") } }
    \cup { MkSection(Str("DHL EXPRESS WORLDWIDE THIRD COUNTRY"), Str("Documents"), Str("KG"),
                     Str("Zone E"), Absent, <<PriceRow(Str("2"), <<"Zone1">>)>>) }

SectionPool == ExportSections \cup LabelSections \cup CodedSections

CarrierPool == {None, Str("DHL Express\nFrance ")}
\* the same with a carrier text that is blank
CarrierTexts == CarrierPool \cup {Str(" \n")}

\* ---- zoning matrices
ZoningRow(name, origin, cell1, cell2) ==
    (IF name = Absent THEN <<>> ELSE <<Entry("MatrixName", name)>>) \o
    (IF origin = Absent THEN <<>> ELSE <<Entry("OriginZone", origin)>>) \o
    <<Entry("DestinationZone1", cell1), Entry("DestinationZone2", cell2)>>

\* a matrix with destinations 3 and 4 in which E is (1,3) and (2,4)
ThirdCountryRows(name) ==
    << ZoningRow(Str(name), Absent, Str("3"), Str("4")),
       ZoningRow(None, Str("1"), Str("e"), Str("A")),
       ZoningRow(None, Str("2"), Str("B"), Str(" E ")) >>
\* a matrix with destinations 6 and 7 in which E is (5,6)
SmallRows(name) ==
    << ZoningRow(Str(name), Absent, Str("6"), Str("7")),
       ZoningRow(None, Str("5"), Str("E"), None) >>

ZoningPool ==
    {
      << ZoningRow(None, Str("1"), Str("E"), Str("A")) >>,
      ThirdCountryRows("DHL EXPRESS THIRD COUNTRY ZONE MATRIX"),
      ThirdCountryRows("DHL EXPRESS THIRD COUNTRY ZONE MATRIX")
          \o SmallRows("DHL ECONOMY SELECT ZONE MATRIX"),
      SmallRows("DHL EXPRESS ZONE MATRIX")
          \o ThirdCountryRows("EXPRESS WORLDWIDE ZONE MATRIX"),
      SmallRows("COUNTRY THIRD ZONE MATRIX")
          \o ThirdCountryRows("DHL EXPRESS THIRD COUNTRY ZONE MATRIX") }

\* build_matrix_main_costs is handed a list of sections and the carrier text
Init ==
    /\ main_costs \in SeqsUpTo(SectionPool, MaxSections)
    /\ carrier \in CarrierPool
    /\ zoning_matrix = <<>>
    /\ parsed_lookup = <<>>
    /\ set_order = <<>>
    /\ lane_rows = <<>>
    /\ sorted_keys = <<>>
    /\ matrix_rows = <<>>
    /\ expanded = <<>>
    /\ category_specs = <<>>
    /\ mx_pc = "input"
    /\ main_costs_field = None
    /\ seg_idx = 1
    /\ current_rate_card = None
    /\ rate_cards = <<>>
    /\ seg_pc = "idle"
    /\ original_name = None
    /\ name_list = <<>>
    /\ cost_idx = 1
    /\ best_score = [sign |-> -1, bits |-> <<1>>, ex |-> 0]
    /\ best_name = ""
    /\ cost_type = ""
    /\ cost_pc = "idle"
    /\ country = None
    /\ name_to_code = <<>>
    /\ country_code = ""
    /\ code_pc = "idle"
    /\ tagged = None
    /\ extracted = None
    /\ ext_pc = "idle"
    /\ find_order = <<>>
    /\ find_service = ""
    /\ find_result = ""
    /\ find_pc = "idle"
    /\ fill_input = None
    /\ fill_data = None
    /\ filled_count = 0
    /\ fill_pc = "idle"
    /\ steps_run = <<>>
    /\ json_written = FALSE
    /\ xlsx_written = FALSE
    /\ txt_written = FALSE
    /\ input_at = "input"
    /\ archive_folder = ""
    /\ archive_names = {}
    /\ archived_to = <<>>
    /\ pipe_pc = "idle"

\* build_matrix_main_costs(main_costs, metadata)
Build ==
    /\ mx_pc = "input"
    /\ ~Raises(main_costs)
    /\ \E lanes \in {LaneRows(main_costs, <<>>)} :
         \E sorted \in {SortedLanes(lanes)} :
            /\ lane_rows' = lanes
            /\ sorted_keys' = KeysOf(sorted)
            /\ matrix_rows' = RowsOf(sorted, carrier)
    /\ category_specs' \in CategorySpecs(main_costs)
    /\ mx_pc' = "built"
    /\ UNCHANGED <<main_costs, carrier, zoning_matrix, parsed_lookup, set_order, expanded,
                   seg_vars, cost_vars, code_vars, ext_vars, find_vars, fill_vars, pipe_vars>>

\* expand_main_costs_lanes_by_zoning(matrix_rows, zoning_matrix): the set of
\* matrix names is iterated in an order the run does not control
Expand ==
    /\ mx_pc = "built"
    /\ \E zm \in ZoningPool :
         \E zoning_lookup \in {parse_zoning_matrix(zm)} :
            \E order \in Orderings(MatrixNames(zoning_lookup)) :
               \E pairs \in {RowPairs(matrix_rows, zoning_lookup, order)} :
                  /\ zoning_matrix' = zm
                  /\ parsed_lookup' = zoning_lookup
                  /\ set_order' = order
                  /\ expanded' = ExpandWith(matrix_rows, zoning_lookup, pairs)
                  /\ matrix_rows' = ArgumentAfter(matrix_rows, zoning_lookup, pairs)
    /\ mx_pc' = "expanded"
    /\ UNCHANGED <<main_costs, carrier, lane_rows, sorted_keys, category_specs, seg_vars, cost_vars, code_vars, ext_vars, find_vars, fill_vars, pipe_vars>>

Next == Build \/ Expand

\* build_matrix_main_costs raises the TypeError of sorted() and returns nothing
BuildRaises ==
    /\ mx_pc = "input"
    /\ Raises(main_costs)
    /\ mx_pc' = "raised"
    /\ UNCHANGED <<main_costs, carrier, zoning_matrix, parsed_lookup, set_order, lane_rows, sorted_keys,
                   matrix_rows, expanded, category_specs, seg_vars, cost_vars, code_vars, ext_vars, find_vars, fill_vars, pipe_vars>>

\* a section of one zone whose price rows carry the given weights
WeightSection(category, unit, weights) ==
    MkSection(Str("DHL EXPRESS EXPORT"), category, unit, Str("Zone 1"), Absent,
              AsList([i \in 1..Len(weights) |-> PriceRow(weights[i], <<"Zone1">>)]))

\* sections whose weights are text, numbers or both, parse or do not, and
\* whose category or unit may be missing
WeightSections ==
    { WeightSection(Str("Documents"), Str("KG"), <<Str("10"), Str("2")>>),
      WeightSection(Str("Documents"), None, <<Str("abc"), Str("10")>>),
      WeightSection(Str("Documents"), Str("LB"), <<Num(2), Str("2.0")>>),
      WeightSection(Str("Documents"), Str("KG"), <<Str(""), Str("0.5"), Num(0), None>>),
      WeightSection(Str("Non-Documents"), None, <<Num(5), Str("abc")>>),
      WeightSection(Str("Non-Documents"), Str("LB"), <<Str("a"), Str("B")>>),
      WeightSection(Str("Non-Documents"), Str("KG"), <<Num(10), Num(2)>>),
      WeightSection(None, Str("KG"), <<Num(1)>>),
      WeightSection(Str(""), Str("LB"), <<Str("x")>>) }

\* build_matrix_main_costs is handed a list of sections of WeightSections
WeightInit ==
    /\ main_costs \in SeqsUpTo(WeightSections, MaxSections)
    /\ carrier \in CarrierTexts
    /\ zoning_matrix = <<>>
    /\ parsed_lookup = <<>>
    /\ set_order = <<>>
    /\ lane_rows = <<>>
    /\ sorted_keys = <<>>
    /\ matrix_rows = <<>>
    /\ expanded = <<>>
    /\ category_specs = <<>>
    /\ mx_pc = "input"
    /\ main_costs_field = None
    /\ seg_idx = 1
    /\ current_rate_card = None
    /\ rate_cards = <<>>
    /\ seg_pc = "idle"
    /\ original_name = None
    /\ name_list = <<>>
    /\ cost_idx = 1
    /\ best_score = [sign |-> -1, bits |-> <<1>>, ex |-> 0]
    /\ best_name = ""
    /\ cost_type = ""
    /\ cost_pc = "idle"
    /\ country = None
    /\ name_to_code = <<>>
    /\ country_code = ""
    /\ code_pc = "idle"
    /\ tagged = None
    /\ extracted = None
    /\ ext_pc = "idle"
    /\ find_order = <<>>
    /\ find_service = ""
    /\ find_result = ""
    /\ find_pc = "idle"
    /\ fill_input = None
    /\ fill_data = None
    /\ filled_count = 0
    /\ fill_pc = "idle"
    /\ steps_run = <<>>
    /\ json_written = FALSE
    /\ xlsx_written = FALSE
    /\ txt_written = FALSE
    /\ input_at = "input"
    /\ archive_folder = ""
    /\ archive_names = {}
    /\ archived_to = <<>>
    /\ pipe_pc = "idle"

WeightNext == Build \/ BuildRaises

\* the matrix builder on sections of every kind of weight
WeightSpec == WeightInit /\ [][WeightNext]_vars

\* sections of one price row over two zones: services with and without
\* "import", "export" and the domestic marker, labels numbered, lettered,
\* padded, without "Zone " and without header
LaneServices ==
    { Str("DHL EXPRESS DOMESTIC"), Str("dhl express domestic"), Str(" DHL Express Import "),
      Str("IMPORT EXPORT"), Str("DHL EXPRESS EXPORT") }
LaneLabels ==
    { <<Str("Zone 1"), Str("zone b")>>, <<Str("A"), Str("Zone 1")>>, <<Str(" Zone 2 "), Absent>> }
LaneSections ==
    { MkSection(sv, Str("Documents"), Str("KG"), h[1], h[2],
                <<PriceRow(Str("0.5"), <<"Zone1", "Zone2">>)>>) :
        sv \in LaneServices, h \in LaneLabels }

\* build_matrix_main_costs is handed a list of sections of LaneSections
LaneInit ==
    /\ main_costs \in SeqsUpTo(LaneSections, MaxSections)
    /\ carrier \in CarrierTexts
    /\ zoning_matrix = <<>>
    /\ parsed_lookup = <<>>
    /\ set_order = <<>>
    /\ lane_rows = <<>>
    /\ sorted_keys = <<>>
    /\ matrix_rows = <<>>
    /\ expanded = <<>>
    /\ category_specs = <<>>
    /\ mx_pc = "input"
    /\ main_costs_field = None
    /\ seg_idx = 1
    /\ current_rate_card = None
    /\ rate_cards = <<>>
    /\ seg_pc = "idle"
    /\ original_name = None
    /\ name_list = <<>>
    /\ cost_idx = 1
    /\ best_score = [sign |-> -1, bits |-> <<1>>, ex |-> 0]
    /\ best_name = ""
    /\ cost_type = ""
    /\ cost_pc = "idle"
    /\ country = None
    /\ name_to_code = <<>>
    /\ country_code = ""
    /\ code_pc = "idle"
    /\ tagged = None
    /\ extracted = None
    /\ ext_pc = "idle"
    /\ find_order = <<>>
    /\ find_service = ""
    /\ find_result = ""
    /\ find_pc = "idle"
    /\ fill_input = None
    /\ fill_data = None
    /\ filled_count = 0
    /\ fill_pc = "idle"
    /\ steps_run = <<>>
    /\ json_written = FALSE
    /\ xlsx_written = FALSE
    /\ txt_written = FALSE
    /\ input_at = "input"
    /\ archive_folder = ""
    /\ archive_names = {}
    /\ archived_to = <<>>
    /\ pipe_pc = "idle"

\* the matrix builder on sections of every kind of service and zone label
LaneSpec == LaneInit /\ [][Build]_vars

\* rows of a ZoningMatrix: header rows whose columns are not in numeric order,
\* with a padded name, with an origin zone and an empty destination number;
\* data rows with letters in either case, a blank name, a padded origin,
\* a missing cell, and without origin
ParseRowPool ==
    { << Entry("MatrixName", Str(" DHL EXPRESS ZONE MATRIX ")),
         Entry("DestinationZone10", Str("9")), Entry("DestinationZone2", Str(" 4 ")) >>,
      << Entry("MatrixName", Str("ECONOMY ZONE MATRIX")), Entry("OriginZone", Str("7")),
         Entry("DestinationZone2", Str("")), Entry("DestinationZone10", Str("5")) >>,
      << Entry("OriginZone", Str("1")),
         Entry("DestinationZone2", Str("e")), Entry("DestinationZone10", Str("E")) >>,
      << Entry("MatrixName", Str(" ")), Entry("OriginZone", Str(" 2 ")),
         Entry("DestinationZone10", Str("a")), Entry("DestinationZone2", None) >>,
      << Entry("OriginZone", Str("3")),
         Entry("DestinationZone2", Str("a")), Entry("DestinationZone10", Str(" b ")) >>,
      << Entry("OriginZone", Str("")), Entry("DestinationZone2", Str("E")) >> }

\* parse_zoning_matrix is handed a list of rows of ParseRowPool
ParseInit ==
    /\ main_costs = <<>>
    /\ carrier = None
    /\ zoning_matrix \in SeqsUpTo(ParseRowPool, MaxZoningRows)
    /\ parsed_lookup = <<>>
    /\ set_order = <<>>
    /\ lane_rows = <<>>
    /\ sorted_keys = <<>>
    /\ matrix_rows = <<>>
    /\ expanded = <<>>
    /\ category_specs = <<>>
    /\ mx_pc = "parse"
    /\ main_costs_field = None
    /\ seg_idx = 1
    /\ current_rate_card = None
    /\ rate_cards = <<>>
    /\ seg_pc = "idle"
    /\ original_name = None
    /\ name_list = <<>>
    /\ cost_idx = 1
    /\ best_score = [sign |-> -1, bits |-> <<1>>, ex |-> 0]
    /\ best_name = ""
    /\ cost_type = ""
    /\ cost_pc = "idle"
    /\ country = None
    /\ name_to_code = <<>>
    /\ country_code = ""
    /\ code_pc = "idle"
    /\ tagged = None
    /\ extracted = None
    /\ ext_pc = "idle"
    /\ find_order = <<>>
    /\ find_service = ""
    /\ find_result = ""
    /\ find_pc = "idle"
    /\ fill_input = None
    /\ fill_data = None
    /\ filled_count = 0
    /\ fill_pc = "idle"
    /\ steps_run = <<>>
    /\ json_written = FALSE
    /\ xlsx_written = FALSE
    /\ txt_written = FALSE
    /\ input_at = "input"
    /\ archive_folder = ""
    /\ archive_names = {}
    /\ archived_to = <<>>
    /\ pipe_pc = "idle"

\* parse_zoning_matrix(zoning_matrix)
Parse ==
    /\ mx_pc = "parse"
    /\ parsed_lookup' = parse_zoning_matrix(zoning_matrix)
    /\ mx_pc' = "parsed"
    /\ UNCHANGED <<main_costs, carrier, zoning_matrix, set_order, lane_rows, sorted_keys,
                   matrix_rows, expanded, category_specs, seg_vars, cost_vars, code_vars, ext_vars, find_vars, fill_vars, pipe_vars>>

\* the zoning parser on its own
ParseSpec == ParseInit /\ [][Parse]_vars

\* build_matrix_main_costs is handed a list of sections with a matrix-coded zone
CloneInit ==
    /\ main_costs \in SeqsUpTo(CodedSections, MaxSections + 1)
    /\ carrier \in CarrierPool
    /\ zoning_matrix = <<>>
    /\ parsed_lookup = <<>>
    /\ set_order = <<>>
    /\ lane_rows = <<>>
    /\ sorted_keys = <<>>
    /\ matrix_rows = <<>>
    /\ expanded = <<>>
    /\ category_specs = <<>>
    /\ mx_pc = "input"
    /\ main_costs_field = None
    /\ seg_idx = 1
    /\ current_rate_card = None
    /\ rate_cards = <<>>
    /\ seg_pc = "idle"
    /\ original_name = None
    /\ name_list = <<>>
    /\ cost_idx = 1
    /\ best_score = [sign |-> -1, bits |-> <<1>>, ex |-> 0]
    /\ best_name = ""
    /\ cost_type = ""
    /\ cost_pc = "idle"
    /\ country = None
    /\ name_to_code = <<>>
    /\ country_code = ""
    /\ code_pc = "idle"
    /\ tagged = None
    /\ extracted = None
    /\ ext_pc = "idle"
    /\ find_order = <<>>
    /\ find_service = ""
    /\ find_result = ""
    /\ find_pc = "idle"
    /\ fill_input = None
    /\ fill_data = None
    /\ filled_count = 0
    /\ fill_pc = "idle"
    /\ steps_run = <<>>
    /\ json_written = FALSE
    /\ xlsx_written = FALSE
    /\ txt_written = FALSE
    /\ input_at = "input"
    /\ archive_folder = ""
    /\ archive_names = {}
    /\ archived_to = <<>>
    /\ pipe_pc = "idle"

\* the builder and the expander on lanes with matrix-coded zones
CloneSpec == CloneInit /\ [][Next]_vars

\* the matrix builder followed by the zoning expander
Spec == Init /\ [][Next]_vars

\* process_main_costs on every field of FieldPool
SegSpec == SegInit /\ [][SegNext]_vars

-----------------------------------------------------------------------------
(***************************************************************************)
(* Python float arithmetic (IEEE 754 binary64, round to nearest even).     *)
(* A float is sign * bits * 2^ex, bits a natural number written as a       *)
(* sequence of binary digits, lowest first, of at most 53 digits; the      *)
(* lowest digit of a non-zero float is 1, so equal floats are equal        *)
(* records.  Subnormals, infinities and overflow are out of reach of the   *)
(* scores computed here.                                                   *)
(***************************************************************************)

RECURSIVE BitsOf(_)
BitsOf(n) == IF n = 0 THEN <<>> ELSE <<n % 2>> \o BitsOf(n \div 2)

Zeros(k) == AsList([i \in 1..k |-> 0])

BitAt(x, i) == IF i <= Len(x) THEN x[i] ELSE 0

ZeroRun(x, lo, hi) == \A i \in lo..hi : x[i] = 0

\* sums and products are taken over digits of base 2^13, which keeps every
\* intermediate value inside the integers of the checker
Pow2 == <<1, 2, 4, 8, 16, 32, 64, 128, 256, 512, 1024, 2048, 4096>>
LimbBits == Len(Pow2)
LimbBase == 2 * Pow2[LimbBits]

\* x without the zero digits at its high end, dropped 13 at a time and then
\* one at a time
RECURSIVE TrimBits(_)
TrimBits(x) ==
    IF Len(x) >= LimbBits /\ ZeroRun(x, Len(x) - LimbBits + 1, Len(x))
    THEN TrimBits(SubSeq(x, 1, Len(x) - LimbBits))
    ELSE IF x # <<>> /\ x[Len(x)] = 0 THEN TrimBits(SubSeq(x, 1, Len(x) - 1))
    ELSE x

RECURSIVE LimbValue(_, _, _)
LimbValue(x, low, t) ==
    IF t > LimbBits THEN 0 ELSE BitAt(x, low + t) + 2 * LimbValue(x, low, t + 1)

ToLimbs(x) ==
    AsList([l \in 1..((Len(x) + LimbBits - 1) \div LimbBits) |->
                LimbValue(x, LimbBits * (l - 1), 1)])

LimbDigits(limbs) ==
    AsList([i \in 1..(LimbBits * Len(limbs)) |->
                (limbs[((i - 1) \div LimbBits) + 1] \div Pow2[((i - 1) % LimbBits) + 1]) % 2])

ToBits(limbs) == TrimBits(LimbDigits(limbs))

LimbAt(x, i) == IF 1 <= i /\ i <= Len(x) THEN x[i] ELSE 0

\* the digits of the number whose digit i, before carrying, is cols[i]
RECURSIVE Carried(_, _, _)
Carried(cols, i, carry) ==
    IF i > Len(cols) THEN (IF carry = 0 THEN <<>> ELSE <<carry>>)
    ELSE <<(cols[i] + carry) % LimbBase>> \o Carried(cols, i + 1, (cols[i] + carry) \div LimbBase)

MaxOf(a, b) == IF a < b THEN b ELSE a

AddLimbs(x, y) ==
    Carried(AsList([i \in 1..MaxOf(Len(x), Len(y)) |-> LimbAt(x, i) + LimbAt(y, i)]), 1, 0)

RECURSIVE Column(_, _, _, _)
Column(x, y, k, i) ==
    IF i > Len(x) THEN 0 ELSE x[i] * LimbAt(y, k + 1 - i) + Column(x, y, k, i + 1)

MulLimbs(x, y) ==
    Carried(AsList([k \in 1..(Len(x) + Len(y)) |-> Column(x, y, k, 1)]), 1, 0)

AddBits(x, y) == ToBits(AddLimbs(ToLimbs(x), ToLimbs(y)))

MulBits(x, y) == ToBits(MulLimbs(ToLimbs(x), ToLimbs(y)))

ShiftLeft(x, k) == IF x = <<>> THEN <<>> ELSE Zeros(k) \o x

\* x < y, compared from the highest digit down
RECURSIVE LessFrom(_, _, _)
LessFrom(x, y, i) ==
    IF i = 0 THEN FALSE
    ELSE IF x[i] # y[i] THEN x[i] < y[i]
    ELSE LessFrom(x, y, i - 1)

LessLimbs(x, y) == IF Len(x) # Len(y) THEN Len(x) < Len(y) ELSE LessFrom(x, y, Len(x))

LessBits(x, y) == IF Len(x) # Len(y) THEN Len(x) < Len(y) ELSE LessLimbs(ToLimbs(x), ToLimbs(y))

\* the number of zero digits at the low end of a non-zero x
RECURSIVE LowZeros(_)
LowZeros(x) ==
    IF Len(x) >= LimbBits /\ ZeroRun(x, 1, LimbBits)
    THEN LimbBits + LowZeros(SubSeq(x, LimbBits + 1, Len(x)))
    ELSE IF Head(x) = 1 THEN 0
    ELSE 1 + LowZeros(Tail(x))

Stripped(sign, bits, ex, z) == [sign |-> sign, bits |-> SubSeq(bits, z + 1, Len(bits)), ex |-> ex + z]

Canon(sign, bits, ex) ==
    IF bits = <<>> THEN [sign |-> 1, bits |-> <<>>, ex |-> 0]
    ELSE Stripped(sign, bits, ex, LowZeros(bits))

MantissaBits == 53

\* the 53 highest digits of bits, rounded to nearest, ties to even; k digits dropped
RoundedUp(bits, k) ==
    /\ bits[k] = 1
    /\ \/ bits[k + 1] = 1
       \/ \E i \in 1..(k - 1) : bits[i] = 1

Dropped(sign, bits, ex, k) ==
    Canon(sign,
          IF RoundedUp(bits, k) THEN AddBits(SubSeq(bits, k + 1, Len(bits)), <<1>>)
          ELSE SubSeq(bits, k + 1, Len(bits)),
          ex + k)

RoundBits(sign, bits, ex) ==
    IF Len(bits) <= MantissaBits THEN Canon(sign, bits, ex)
    ELSE Dropped(sign, bits, ex, Len(bits) - MantissaBits)

FloatOfInt(n) == IF n < 0 THEN Canon(-1, BitsOf(-n), 0) ELSE Canon(1, BitsOf(n), 0)

\* the first count digits in base 2^13 of rem / d below the point, highest
\* first, for rem < d
RECURSIVE QuotientLimbs(_, _, _)
QuotientLimbs(rem, d, count) ==
    IF count = 0 THEN <<>>
    ELSE <<(rem * LimbBase) \div d>> \o QuotientLimbs((rem * LimbBase) % d, d, count - 1)

RECURSIVE RemainderAfter(_, _, _)
RemainderAfter(rem, d, count) ==
    IF count = 0 THEN rem ELSE RemainderAfter((rem * LimbBase) % d, d, count - 1)

\* the first 13 * places binary digits of rem / d below the point, lowest
\* first, under them a digit that is 1 when the digits left out are not all zero
QuotientBits(rem, d, places) ==
    <<IF RemainderAfter(rem, d, places) = 0 THEN 0 ELSE 1>>
    \o LimbDigits(Reverse(QuotientLimbs(rem, d, places)))

Quotient(n, d, places) ==
    RoundBits(1, TrimBits(QuotientBits(n % d, d, places) \o BitsOf(n \div d)),
              0 - (LimbBits * places + 1))

\* int / int, for 0 <= n and 0 < d < 2^10: 65 digits below the point hold
\* more than the 53 digits kept and the digit that decides the rounding
TrueDiv(n, d) == Quotient(n, d, 5)

FloatMul(x, y) == RoundBits(x.sign * y.sign, MulBits(x.bits, y.bits), x.ex + y.ex)

MinOf(a, b) == IF a < b THEN a ELSE b

AlignedBits(x, ex) == ShiftLeft(x.bits, x.ex - ex)

\* x + y for x, y >= 0
FloatAdd(x, y) ==
    RoundBits(1, AddBits(AlignedBits(x, MinOf(x.ex, y.ex)), AlignedBits(y, MinOf(x.ex, y.ex))),
              MinOf(x.ex, y.ex))

MagnitudeLess(x, y) ==
    LessBits(AlignedBits(x, MinOf(x.ex, y.ex)), AlignedBits(y, MinOf(x.ex, y.ex)))

FloatLt(x, y) ==
    IF x.sign # y.sign THEN x.sign < y.sign
    ELSE IF x.sign = 1 THEN MagnitudeLess(x, y)
    ELSE MagnitudeLess(y, x)

\* the float nearest to a decimal literal num / den
Literal(num, den) == TrueDiv(num, den)

-----------------------------------------------------------------------------
(***************************************************************************)
(* The cost-type resolver: _token_set and _best_match_cost_type.           *)
(***************************************************************************)

IsTokenChar(c) == c \in DOMAIN LowerPosition \/ IsDigit(c)

\* the longest prefix of s made of the characters a-z and 0-9
RECURSIVE TokenRun(_)
TokenRun(s) ==
    IF s # "" /\ IsTokenChar(CharAt(s, 1)) THEN CharAt(s, 1) \o TokenRun(From(s, 1)) ELSE ""

\* [a-z0-9]+(?::[a-z0-9]+)? matched at the start of s, whose first run is run
ColonPart(rest) ==
    IF StartsWith(rest, ":") /\ TokenRun(From(rest, 1)) # ""
    THEN ":" \o TokenRun(From(rest, 1))
    ELSE ""

TokenAt(s, run) == run \o ColonPart(From(s, Len(run)))

\* re.findall of the token pattern: matches are taken from left to right and
\* do not overlap; the second alternative [a-z]+ can only match where the
\* first one does
RECURSIVE FindTokens(_)
FindTokens(s) ==
    IF s = "" THEN {}
    ELSE IF TokenRun(s) = "" THEN FindTokens(From(s, 1))
    ELSE {TokenAt(s, TokenRun(s))} \cup FindTokens(From(s, Len(TokenAt(s, TokenRun(s)))))

_token_set(text) == FindTokens(Strip(StrLower(text)))

\* the length of the longest common run of a from i and b from j, inside
\* a[..ahi] and b[..bhi]
RECURSIVE RunLength(_, _, _, _, _, _)
RunLength(a, b, i, j, ahi, bhi) ==
    IF i <= ahi /\ j <= bhi /\ CharAt(a, i) = CharAt(b, j)
    THEN 1 + RunLength(a, b, i + 1, j + 1, ahi, bhi)
    ELSE 0

Block(i, j, size) == [i |-> i, j |-> j, size |-> size]

Blocks(a, b, alo, ahi, blo, bhi) ==
    {Block(i, j, RunLength(a, b, i, j, ahi, bhi)) : i \in alo..ahi, j \in blo..bhi}

\* difflib.SequenceMatcher.find_longest_match without junk: the longest
\* block, of those the one starting earliest in a, of those the one starting
\* earliest in b (texts shorter than 200 characters have no automatic junk)
BestBlock(blocks) ==
    CHOOSE m \in blocks :
        \A n \in blocks :
            \/ n.size < m.size
            \/ n.size = m.size /\ (m.i < n.i \/ (m.i = n.i /\ m.j <= n.j))

find_longest_match(a, b, alo, ahi, blo, bhi) ==
    IF alo > ahi \/ blo > bhi THEN Block(alo, blo, 0)
    ELSE BestBlock(Blocks(a, b, alo, ahi, blo, bhi))

\* the total size of get_matching_blocks: the longest block, then the
\* blocks to its left and to its right
RECURSIVE Matches(_, _, _, _, _, _)
AroundBlock(a, b, alo, ahi, blo, bhi, m) ==
    IF m.size = 0 THEN 0
    ELSE m.size + Matches(a, b, alo, m.i - 1, blo, m.j - 1)
                + Matches(a, b, m.i + m.size, ahi, m.j + m.size, bhi)

Matches(a, b, alo, ahi, blo, bhi) ==
    AroundBlock(a, b, alo, ahi, blo, bhi, find_longest_match(a, b, alo, ahi, blo, bhi))

\* SequenceMatcher(None, a, b).ratio() = 2.0 * matches / length
ratio(a, b) ==
    IF Len(a) + Len(b) = 0 THEN FloatOfInt(1)
    ELSE TrueDiv(2 * Matches(a, b, 1, Len(a), 1, Len(b)), Len(a) + Len(b))

HasColon(t) == \E i \in 1..Len(t) : CharAt(t, i) = ":"

Meaningful(tokens) == {t \in tokens : Len(t) >= 2 \/ HasColon(t)}

TokenBonusOf(shared, meaningful_orig) ==
    IF meaningful_orig # {}
    THEN FloatMul(TrueDiv(Cardinality(shared \cap meaningful_orig), Cardinality(meaningful_orig)),
                  Literal(4, 10))
    ELSE FloatOfInt(0)

token_bonus(orig_tokens, name_tokens) ==
    TokenBonusOf(orig_tokens \cap name_tokens, Meaningful(orig_tokens))

\* the score of one candidate, the character ratio taken on the texts as written
Score_CaseSensitive(original, name_str) ==
    FloatAdd(ratio(original, name_str),
             token_bonus(_token_set(original), _token_set(name_str)))

\* lines 918-924: the score of one candidate; original and name_str are stripped
Score(original, name_str) ==
    FloatAdd(ratio(StrLower(original), StrLower(name_str)),
             token_bonus(_token_set(original), _token_set(name_str)))

\* line 925: a candidate replaces the best one only with a higher score
Better_OrEqual(score, best) == ~FloatLt(score, best)

Better(score, best) == FloatLt(best, score)

\* line 928: the best name is returned when its score is at least 0.3
Accepted(score) == ~FloatLt(score, Literal(3, 10))

\* lines 906-910: the calls that return '' before any name is scored
ReturnsEarly(name, names) ==
    ~Truthy(name) \/ names = <<>> \/ Strip(StrOf(name)) = ""

OriginalPool ==
    { None, Str(" "), Str("Fee"), Str(" Fee "), Str("Premium 9:00:"), Str("abc") }

NamePool ==
    { "Fee", "fee", " Fee ", " ", "9:00 Service Fee", "Permit Fee", "Premium 9:00:",
      "abcxxxxxxxxxxxxxx" }

\* _best_match_cost_type is handed a name and a reference list
CostInit ==
    /\ original_name \in OriginalPool
    /\ name_list \in SeqsUpTo(NamePool, MaxNames)
    /\ cost_idx = 1
    /\ best_score = [sign |-> -1, bits |-> <<1>>, ex |-> 0]
    /\ best_name = ""
    /\ cost_type = ""
    /\ cost_pc = "input"
    /\ main_costs_field = None
    /\ seg_idx = 1
    /\ current_rate_card = None
    /\ rate_cards = <<>>
    /\ seg_pc = "idle"
    /\ main_costs = <<>>
    /\ carrier = None
    /\ zoning_matrix = <<>>
    /\ parsed_lookup = <<>>
    /\ set_order = <<>>
    /\ lane_rows = <<>>
    /\ sorted_keys = <<>>
    /\ matrix_rows = <<>>
    /\ expanded = <<>>
    /\ category_specs = <<>>
    /\ mx_pc = "idle"
    /\ country = None
    /\ name_to_code = <<>>
    /\ country_code = ""
    /\ code_pc = "idle"
    /\ tagged = None
    /\ extracted = None
    /\ ext_pc = "idle"
    /\ find_order = <<>>
    /\ find_service = ""
    /\ find_result = ""
    /\ find_pc = "idle"
    /\ fill_input = None
    /\ fill_data = None
    /\ filled_count = 0
    /\ fill_pc = "idle"
    /\ steps_run = <<>>
    /\ json_written = FALSE
    /\ xlsx_written = FALSE
    /\ txt_written = FALSE
    /\ input_at = "input"
    /\ archive_folder = ""
    /\ archive_names = {}
    /\ archived_to = <<>>
    /\ pipe_pc = "idle"

\* lines 906-910: return '' for an empty name, an empty list or a blank name
CostEmpty ==
    /\ cost_pc = "input"
    /\ ReturnsEarly(original_name, name_list)
    /\ cost_type' = ""
    /\ cost_pc' = "done"
    /\ UNCHANGED <<original_name, name_list, cost_idx, best_score, best_name, seg_vars, mx_vars, code_vars, ext_vars, find_vars, fill_vars, pipe_vars>>

\* lines 908-913: best_score = -1.0, best_name = ''
CostStart ==
    /\ cost_pc = "input"
    /\ ~ReturnsEarly(original_name, name_list)
    /\ cost_idx' = 1
    /\ best_score' = FloatOfInt(-1)
    /\ best_name' = ""
    /\ cost_pc' = "loop"
    /\ UNCHANGED <<original_name, name_list, cost_type, seg_vars, mx_vars, code_vars, ext_vars, find_vars, fill_vars, pipe_vars>>

\* lines 914-917: a name that is blank is passed over
CostSkip ==
    /\ cost_pc = "loop"
    /\ cost_idx <= Len(name_list)
    /\ Strip(name_list[cost_idx]) = ""
    /\ cost_idx' = cost_idx + 1
    /\ UNCHANGED <<original_name, name_list, best_score, best_name, cost_type, cost_pc,
                   seg_vars, mx_vars, code_vars, ext_vars, find_vars, fill_vars, pipe_vars>>

\* lines 918-927: the name is scored and kept when it beats the best so far
CostScore ==
    /\ cost_pc = "loop"
    /\ cost_idx <= Len(name_list)
    /\ Strip(name_list[cost_idx]) # ""
    /\ \E score \in {Score(Strip(StrOf(original_name)), Strip(name_list[cost_idx]))} :
          IF Better(score, best_score)
          THEN best_score' = score /\ best_name' = Strip(name_list[cost_idx])
          ELSE UNCHANGED <<best_score, best_name>>
    /\ cost_idx' = cost_idx + 1
    /\ UNCHANGED <<original_name, name_list, cost_type, cost_pc, seg_vars, mx_vars, code_vars, ext_vars, find_vars, fill_vars, pipe_vars>>

\* line 928
CostReturn ==
    /\ cost_pc = "loop"
    /\ cost_idx > Len(name_list)
    /\ cost_type' = IF Accepted(best_score) THEN best_name ELSE ""
    /\ cost_pc' = "done"
    /\ UNCHANGED <<original_name, name_list, cost_idx, best_score, best_name, seg_vars, mx_vars, code_vars, ext_vars, find_vars, fill_vars, pipe_vars>>

CostNext == CostEmpty \/ CostStart \/ CostSkip \/ CostScore \/ CostReturn

\* _best_match_cost_type on every name of OriginalPool and every list over NamePool
CostSpec == CostInit /\ [][CostNext]_vars

-----------------------------------------------------------------------------
(***************************************************************************)
(* The country-code resolver: _country_to_code (src/create_table.py).      *)
(* The table is a dict from country names to codes, both str.              *)
(***************************************************************************)

\* str.endswith(p)
EndsWith(s, p) == Len(p) <= Len(s) /\ SubSeq(s, Len(s) - Len(p) + 1, Len(s)) = p

\* s.strip(","): the commas at both ends removed
RECURSIVE StripCommas(_)
StripCommas(s) ==
    IF s # "" /\ CharAt(s, 1) = "," THEN StripCommas(From(s, 1))
    ELSE IF s # "" /\ CharAt(s, Len(s)) = "," THEN StripCommas(Upto(s, Len(s) - 1))
    ELSE s

\* lines 505-506: the Republic rewrites, in the order they are applied
RepublicOf(s) == StrReplace(StrReplace(s, "Republic Of", "Rep. Of"), "Republic of", "Rep. Of")
Normalized(s) == StrReplace(StrReplace(RepublicOf(s), ", Republic", ", Rep."), " Republic", " Rep.")

\* lines 511-512
Suffixes ==
    << ", Peoples Republic", ", People's Republic", ", Peoples Rep.", ", People's Rep.",
       " Peoples Republic", " People's Republic" >>

\* line 514
BaseName(n, suffix) == Strip(StripCommas(Strip(StrReplace(n, suffix, ""))))

\* lines 513-516: the base name under one suffix, when the suffix occurs and
\* the base name is not empty
BaseUnder(n, suffix) ==
    IF (EndsWith(n, suffix) \/ StrIn(suffix, n)) /\ BaseName(n, suffix) # ""
    THEN <<BaseName(n, suffix)>>
    ELSE <<>>

\* the suffix patterns left out
BaseNames_None(n, suffixes) == <<>>

RECURSIVE BaseNames(_, _)
BaseNames(n, suffixes) ==
    IF suffixes = <<>> THEN <<>>
    ELSE BaseUnder(n, Head(suffixes)) \o BaseNames(n, Tail(suffixes))

\* the variant that writes And for & left out
Variants_NoAnd(n) ==
    <<n, StrReplace(n, " And ", " & ")>> \o BaseNames(n, Suffixes)

\* lines 504-516: the variants of the normalized name, in the order tried
Variants(n) ==
    <<n, StrReplace(n, " And ", " & "), StrReplace(n, " & ", " And ")>>
    \o BaseNames(n, Suffixes)

\* name_to_code.get(v) is not None, for v or its uppercased form
Hits(table, v) == DictHas(table, v) \/ DictHas(table, StrUpper(v))

\* the uppercased entry before the exact one
CodeOf_UpperFirst(table, v) ==
    IF DictHas(table, StrUpper(v)) THEN DictGet(table, StrUpper(v), "") ELSE DictGet(table, v, "")

\* the code of a name that hits: the exact entry before the uppercased one
CodeOf(table, v) ==
    IF DictHas(table, v) THEN DictGet(table, v, "") ELSE DictGet(table, StrUpper(v), "")

\* lines 517-526: the code of the first variant that hits, '' when none does
RECURSIVE FirstHit(_, _)
FirstHit(table, variants) ==
    IF variants = <<>> THEN ""
    ELSE IF Head(variants) # "" /\ Hits(table, Head(variants)) THEN CodeOf(table, Head(variants))
    ELSE FirstHit(table, Tail(variants))

\* lines 491-495: the calls that return '' before any lookup
NoCountry(name) == ~Truthy(name) \/ Strip(StrOf(name)) = ""

\* lines 493-526 on the stripped name
StrippedCountry(s, table) ==
    IF s = "" THEN ""
    ELSE IF Hits(table, s) THEN CodeOf(table, s)
    ELSE FirstHit(table, Variants(Normalized(s)))

\* _country_to_code(country, name_to_code)
_country_to_code(name, table) ==
    IF ~Truthy(name) THEN "" ELSE StrippedCountry(Strip(StrOf(name)), table)

CountryPool ==
    { None, Str(" "), Str("china"), Str(" China "),
      Str("Bosnia And Herzegovina"), Str("Bosnia & Herzegovina"),
      Str("Fiji And Tonga Republic"), Str("Fiji & Tonga Republic"),
      Str("China, Peoples Republic"), Str("China, People's Republic"),
      Str("China, Peoples Rep."), Str("China, People's Rep."),
      Str("China Peoples Republic"), Str("China People's Republic") }

CodePool ==
    { Entry("China", "CN"), Entry("CHINA", "ZZ"), Entry("China, Peoples Rep.", "CP"),
      Entry("Bosnia And Herzegovina", "BA"), Entry("Bosnia & Herzegovina", "BH"),
      Entry("BOSNIA & HERZEGOVINA", "BU"),
      Entry("Fiji And Tonga Republic", "FT"), Entry("Fiji & Tonga Republic", "FR") }

\* the tables of at most MaxEntries entries: the names of a dict are distinct
TablePool ==
    {t \in SeqsUpTo(CodePool, MaxEntries) :
        \A i \in 1..Len(t) : \A j \in 1..Len(t) : i # j => t[i].key # t[j].key}

\* _country_to_code is handed a country name and a table
CodeInit ==
    /\ country \in CountryPool
    /\ name_to_code \in TablePool
    /\ country_code = ""
    /\ code_pc = "input"
    /\ main_costs_field = None
    /\ seg_idx = 1
    /\ current_rate_card = None
    /\ rate_cards = <<>>
    /\ seg_pc = "idle"
    /\ main_costs = <<>>
    /\ carrier = None
    /\ zoning_matrix = <<>>
    /\ parsed_lookup = <<>>
    /\ set_order = <<>>
    /\ lane_rows = <<>>
    /\ sorted_keys = <<>>
    /\ matrix_rows = <<>>
    /\ expanded = <<>>
    /\ category_specs = <<>>
    /\ mx_pc = "idle"
    /\ original_name = None
    /\ name_list = <<>>
    /\ cost_idx = 1
    /\ best_score = [sign |-> -1, bits |-> <<1>>, ex |-> 0]
    /\ best_name = ""
    /\ cost_type = ""
    /\ cost_pc = "idle"
    /\ tagged = None
    /\ extracted = None
    /\ ext_pc = "idle"
    /\ find_order = <<>>
    /\ find_service = ""
    /\ find_result = ""
    /\ find_pc = "idle"
    /\ fill_input = None
    /\ fill_data = None
    /\ filled_count = 0
    /\ fill_pc = "idle"
    /\ steps_run = <<>>
    /\ json_written = FALSE
    /\ xlsx_written = FALSE
    /\ txt_written = FALSE
    /\ input_at = "input"
    /\ archive_folder = ""
    /\ archive_names = {}
    /\ archived_to = <<>>
    /\ pipe_pc = "idle"

\* lines 491-495: no country, or a blank one
CodeEmpty ==
    /\ code_pc = "input"
    /\ NoCountry(country)
    /\ country_code' = ""
    /\ code_pc' = "done"
    /\ UNCHANGED <<country, name_to_code, seg_vars, mx_vars, cost_vars, ext_vars, find_vars, fill_vars, pipe_vars>>

\* lines 497-502: the stripped name, or its uppercased form, is in the table
CodeDirect ==
    /\ code_pc = "input"
    /\ ~NoCountry(country)
    /\ Hits(name_to_code, Strip(StrOf(country)))
    /\ country_code' = CodeOf(name_to_code, Strip(StrOf(country)))
    /\ code_pc' = "done"
    /\ UNCHANGED <<country, name_to_code, seg_vars, mx_vars, cost_vars, ext_vars, find_vars, fill_vars, pipe_vars>>

\* lines 503-526: the variants are built and tried in order
CodeVariants ==
    /\ code_pc = "input"
    /\ ~NoCountry(country)
    /\ ~Hits(name_to_code, Strip(StrOf(country)))
    /\ country_code' = FirstHit(name_to_code, Variants(Normalized(Strip(StrOf(country)))))
    /\ code_pc' = "done"
    /\ UNCHANGED <<country, name_to_code, seg_vars, mx_vars, cost_vars, ext_vars, find_vars, fill_vars, pipe_vars>>

CodeNext == CodeEmpty \/ CodeDirect \/ CodeVariants

\* _country_to_code on every name of CountryPool and every table of TablePool
CodeSpec == CodeInit /\ [][CodeNext]_vars

-----------------------------------------------------------------------------
(***************************************************************************)
(* Properties of the segmenter.                                            *)
(***************************************************************************)

\* positions of value_array holding a header row / an accepted price row
HeaderPositions ==
    {i \in 1..Len(value_array) :
        value_array[i].type = "object" /\ IsHeaderRow(ValueObjectOf(value_array[i]))}
AcceptedPositions ==
    {i \in 1..Len(value_array) :
        /\ value_array[i].type = "object"
        /\ ~IsHeaderRow(ValueObjectOf(value_array[i]))
        /\ Truthy(extract_value(DictGet(ValueObjectOf(value_array[i]), "Weight", None)))
        /\ ZoneValues(ValueObjectOf(value_array[i])) # <<>>}
\* header h is followed by an accepted price row before the next header
Productive(h) ==
    \E j \in AcceptedPositions : j > h /\ \A m \in HeaderPositions : ~(h < m /\ m < j)

\* C1: every section of rate_cards, at every step and on return, has at least one
\* price row, and on return the sections are exactly as many as the header rows
\* that are followed by an accepted price row before the next header row or the
\* end of input: a header row without one produces no section.
C1_EverySectionHasPrices ==
    /\ \A i \in 1..Len(rate_cards) : Len(rate_cards[i].pricing) >= 1
    /\ seg_pc = "done" =>
          Len(rate_cards) = Cardinality({h \in HeaderPositions : Productive(h)})

\* a return with a section in the output and a header row that produced none
C1_Witness ==
    /\ seg_pc = "done"
    /\ Len(rate_cards) >= 1
    /\ \E h \in HeaderPositions : ~Productive(h)

-----------------------------------------------------------------------------
(***************************************************************************)
(* Properties of the matrix builder and the zoning expander.               *)
(***************************************************************************)

LanesNumbered(rows) == \A i \in 1..Len(rows) : rows[i].Lane = i

\* C2: the Lane # values are exactly 1, 2, ..., N in list order, in the list
\* build_matrix_main_costs returns and in the list
\* expand_main_costs_lanes_by_zoning returns (empty lookup, no lane expanded,
\* lanes replaced by several clones).
C2_LaneNumbersContiguous ==
    /\ mx_pc = "built" => LanesNumbered(matrix_rows)
    /\ mx_pc = "expanded" => LanesNumbered(expanded)

\* an expansion in which two clones of one lane are followed by a kept lane
C2_Witness ==
    /\ mx_pc = "expanded"
    /\ \E i \in 1..Len(expanded) : \E j \in 1..Len(expanded) :
          /\ i + 1 < j
          /\ expanded[i].Matrix_zone # ""
          /\ expanded[i + 1].Matrix_zone = expanded[i].Matrix_zone
          /\ expanded[i + 1].Service = expanded[i].Service
          /\ expanded[i + 1].Origin # expanded[i].Origin
          /\ expanded[j].Matrix_zone = ""

RECURSIVE SeqSum(_)
SeqSum(q) == IF q = <<>> THEN 0 ELSE Head(q) + SeqSum(Tail(q))

\* the pairs the lookup holds for a lane's resolved matrix name and zone letter
PairsUnder(name, row) ==
    IF name = "" THEN <<>>
    ELSE DictGet(parsed_lookup, <<name, _matrix_zone_to_letter(row.Matrix_zone)>>, <<>>)
LookupPairs(row) ==
    CHOOSE pairs \in {PairsUnder(_find_matrix_for_service(set_order, row.Service), row)} : TRUE

AtLeastOne(n) == IF n > 1 THEN n ELSE 1
ExpectedLanes(row) ==
    IF Strip(row.Matrix_zone) = "" THEN 1 ELSE AtLeastOne(Len(LookupPairs(row)))

\* C3: the number of lanes the expander returns is the number of lanes with
\* empty matrix zone plus, over the lanes with non-empty matrix zone, the sum
\* of max(1, number of pairs found for the resolved matrix name and zone
\* letter), an unresolved matrix name counting as zero pairs.
C3_ExpansionCardinality ==
    mx_pc = "expanded" =>
        Len(expanded) = SeqSum([i \in 1..Len(matrix_rows) |-> ExpectedLanes(matrix_rows[i])])

\* an expansion over a lane with two pairs, a coded lane with no pairs and a
\* lane without matrix zone
C3_Witness ==
    /\ mx_pc = "expanded"
    /\ \E i \in 1..Len(matrix_rows) :
          matrix_rows[i].Matrix_zone # "" /\ Len(LookupPairs(matrix_rows[i])) = 2
    /\ \E i \in 1..Len(matrix_rows) :
          matrix_rows[i].Matrix_zone # "" /\ LookupPairs(matrix_rows[i]) = <<>>
    /\ \E i \in 1..Len(matrix_rows) : matrix_rows[i].Matrix_zone = ""

\* the suffix of a zone label, and the two kinds of suffix the ordering names
SuffixOf(label) == ZoneSuffix(Strip(label))
IsEmptyLabel(label) == Strip(label) = ""
IsNumericLabel(label) == ~IsEmptyLabel(label) /\ SuffixOf(label) # "" /\ AllDigits(SuffixOf(label))
IsLetteredLabel(label) ==
    ~IsEmptyLabel(label) /\ \E i \in 1..Len(SuffixOf(label)) : IsAlpha(CharAt(SuffixOf(label), i))
NumericValue(label) == DigitsValue(SuffixOf(label))

\* positions i, j of sorted_keys that hold two lanes of one service
SameService(i, j) ==
    /\ i \in 1..Len(sorted_keys) /\ j \in 1..Len(sorted_keys)
    /\ sorted_keys[i][1] = sorted_keys[j][1]
ZoneLabel(i) == sorted_keys[i][2]

\* C4: within one service the builder orders the lanes so that labels with a
\* purely numeric suffix come in ascending numeric value and every label with
\* a letter-bearing suffix comes after every numeric one.
C4_NumericThenLettered ==
    mx_pc = "built" =>
        \A i \in 1..Len(sorted_keys) : \A j \in 1..Len(sorted_keys) :
            (SameService(i, j) /\ i < j) =>
                /\ (IsNumericLabel(ZoneLabel(i)) /\ IsNumericLabel(ZoneLabel(j)))
                      => NumericValue(ZoneLabel(i)) <= NumericValue(ZoneLabel(j))
                /\ ~(IsLetteredLabel(ZoneLabel(i)) /\ IsNumericLabel(ZoneLabel(j)))

\* C5 as stated: a lane whose zone label is empty is placed before every lane
\* of the same service whose zone label has a numeric suffix.
C5_EmptyBeforeNumeric ==
    mx_pc = "built" =>
        \A i \in 1..Len(sorted_keys) : \A j \in 1..Len(sorted_keys) :
            (SameService(i, j) /\ IsEmptyLabel(ZoneLabel(i)) /\ IsNumericLabel(ZoneLabel(j)))
                => i < j

\* C5: a lane whose zone label is empty is placed after every lane of the same
\* service whose zone label has a numeric suffix.
C5_EmptyAfterNumeric ==
    mx_pc = "built" =>
        \A i \in 1..Len(sorted_keys) : \A j \in 1..Len(sorted_keys) :
            (SameService(i, j) /\ IsEmptyLabel(ZoneLabel(i)) /\ IsNumericLabel(ZoneLabel(j)))
                => j < i

\* a built list with an empty label and two numeric labels in one service
C5_Witness ==
    /\ mx_pc = "built"
    /\ \E i \in 1..Len(sorted_keys) : \E j \in 1..Len(sorted_keys) :
          \E k \in 1..Len(sorted_keys) :
             /\ SameService(i, j) /\ SameService(i, k) /\ j # k
             /\ ZoneLabel(i) = ""
             /\ IsNumericLabel(ZoneLabel(j)) /\ IsNumericLabel(ZoneLabel(k))

\* scenario A: two sections of the service DHL EXPRESS EXPORT with zone labels
\* Zone 1 and Zone 2, weight labels 0.5 and 1.0 and two distinct cost categories
ScenarioA ==
    /\ Len(main_costs) = 2
    /\ main_costs[1] \in ExportSections /\ main_costs[2] \in ExportSections
    /\ main_costs[1].cost_category # main_costs[2].cost_category

\* what scenario A returns apart from the origins
ScenarioA_Result ==
    /\ Len(matrix_rows) = 2
    /\ Len(category_specs) = 2
    /\ \A i \in 1..Len(category_specs) :
          category_specs[i].weights = <<Str("0.5"), Str("1.0")>>
    /\ \A i \in 1..Len(matrix_rows) : matrix_rows[i].Destination = ZoneLabel(i)

\* t is the last whitespace-delimited token of text, "" when text has none
IsLastToken(t, text) ==
    IF \A i \in 1..Len(text) : IsSpace(CharAt(text, i)) THEN t = ""
    ELSE \E i \in 1..Len(text) : \E j \in i..Len(text) :
            /\ t = SubSeq(text, i, j)
            /\ \A k \in i..j : ~IsSpace(CharAt(text, k))
            /\ \A k \in (j + 1)..Len(text) : IsSpace(CharAt(text, k))
            /\ i = 1 \/ IsSpace(CharAt(text, i - 1))

\* C6 as stated: scenario A returns exactly 2 lanes and 2 category specs, each
\* with weight order [0.5, 1.0], and each lane has its zone label as
\* destination and an empty origin, whatever the carrier text.
C6_ScenarioA_OriginEmpty ==
    (mx_pc = "built" /\ ScenarioA) =>
        /\ ScenarioA_Result
        /\ \A i \in 1..Len(matrix_rows) : matrix_rows[i].Origin = ""

\* C6: scenario A returns exactly 2 lanes and 2 category specs, each with
\* weight order [0.5, 1.0], and each lane has its zone label as destination
\* and, as origin, the last whitespace-delimited token of the carrier text
\* (empty when the carrier text is absent or has no token).
C6_ScenarioA_OriginFromCarrier ==
    (mx_pc = "built" /\ ScenarioA) =>
        /\ ScenarioA_Result
        /\ \A i \in 1..Len(matrix_rows) : IsLastToken(matrix_rows[i].Origin, OrText(carrier))

\* scenario A built under a carrier text that has a token
C6_Witness ==
    /\ mx_pc = "built" /\ ScenarioA
    /\ Len(matrix_rows) = 2 /\ matrix_rows[1].Origin = "France"

\* the lookup of the recorded zoning matrix and its matrix names
ZoningLookup == parsed_lookup
KnownNames == MatrixNames(ZoningLookup)

ThirdCountryService == "DHL EXPRESS WORLDWIDE THIRD COUNTRY"
ThirdCountryMatrix == "DHL EXPRESS THIRD COUNTRY ZONE MATRIX"

MatchesSomeTier(mn, service) ==
    MatchesDirect(mn, service) \/ MatchesNormalized(mn, service) \/ MatchesWords(mn, service)

\* scenario B: the expander is handed the one lane Zone E of the third-country
\* service, and a lookup in which the third-country matrix maps E to (1,3),
\* (2,4) and is the only matrix name that matches the service
ScenarioB ==
    /\ Len(matrix_rows) = 1
    /\ matrix_rows[1].Matrix_zone = "Zone E"
    /\ matrix_rows[1].Service = ThirdCountryService
    /\ DictGet(ZoningLookup, <<ThirdCountryMatrix, "E">>, <<>>) = << <<"1", "3">>, <<"2", "4">> >>
    /\ \A mn \in KnownNames \ {ThirdCountryMatrix} : ~MatchesSomeTier(mn, ThirdCountryService)

\* C7: in scenario B the lane is matched to the third-country matrix through
\* main-words containment (neither substring test passes), and the expander
\* returns exactly two lanes, Zone 1 / Zone 3 and Zone 2 / Zone 4 in that
\* order, numbered 1 and 2.
C7_ScenarioB_TwoLanes ==
    (mx_pc = "expanded" /\ ScenarioB) =>
        /\ ~MatchesDirect(ThirdCountryMatrix, ThirdCountryService)
        /\ ~MatchesNormalized(ThirdCountryMatrix, ThirdCountryService)
        /\ _find_matrix_for_service(set_order, matrix_rows[1].Service) = ThirdCountryMatrix
        /\ Len(expanded) = 2
        /\ expanded[1].Origin = "Zone 1" /\ expanded[1].Destination = "Zone 3"
        /\ expanded[2].Origin = "Zone 2" /\ expanded[2].Destination = "Zone 4"
        /\ expanded[1].Lane = 1 /\ expanded[2].Lane = 2
        /\ \A i \in 1..2 : /\ expanded[i].Service = ThirdCountryService
                            /\ expanded[i].Matrix_zone = "Zone E"
                            /\ expanded[i].costs = matrix_rows[1].costs

\* scenario B expanded, with a second matrix in the lookup
C7_Witness ==
    /\ mx_pc = "expanded" /\ ScenarioB
    /\ Cardinality(KnownNames) = 2
    /\ Len(expanded) = 2

\* the names of the first tier in which some name matches the service
MatchingTier(service) ==
    IF \E mn \in KnownNames : MatchesDirect(mn, service)
    THEN {mn \in KnownNames : MatchesDirect(mn, service)}
    ELSE IF \E mn \in KnownNames : MatchesNormalized(mn, service)
    THEN {mn \in KnownNames : MatchesNormalized(mn, service)}
    ELSE {mn \in KnownNames : MatchesWords(mn, service)}

\* the longest name of a set, the lexically smallest among equally long ones
IsPreferred(mn, names) ==
    /\ mn \in names
    /\ \A other \in names \ {mn} :
          Len(other) < Len(mn) \/ (Len(other) = Len(mn) /\ StrLess(mn, other))

\* C8: when several known matrix names match a lane's service within the
\* same tier, _find_matrix_for_service returns the longest matching name, the
\* lexically smallest among equally long ones, whatever the iteration order.
C8_LongestNameWins ==
    mx_pc = "expanded" =>
        \A i \in 1..Len(matrix_rows) :
            (Strip(matrix_rows[i].Service) # ""
                /\ MatchingTier(Strip(matrix_rows[i].Service)) # {}) =>
                IsPreferred(_find_matrix_for_service(set_order, matrix_rows[i].Service),
                            MatchingTier(Strip(matrix_rows[i].Service)))

-----------------------------------------------------------------------------
(***************************************************************************)
(* Properties of the cost-type resolver.                                   *)
(***************************************************************************)

\* the text of the name to resolve, and the list entries that are scored
OriginalText == StrOf(original_name)
Candidates == {i \in 1..Len(name_list) : Strip(name_list[i]) # ""}
ScoreOf(i) == Score(Strip(OriginalText), Strip(name_list[i]))

\* entry i has the highest score, and is the earliest entry that has it
Winner(i) ==
    /\ i \in Candidates
    /\ \A j \in Candidates :
          IF j < i THEN FloatLt(ScoreOf(j), ScoreOf(i)) ELSE ~FloatLt(ScoreOf(i), ScoreOf(j))

\* name equals the name to resolve up to letter case and surrounding whitespace
SameName(name) == StrLower(Strip(name)) = StrLower(Strip(OriginalText))

ListedExactly == \E i \in 1..Len(name_list) : name_list[i] = OriginalText

C10_HighestScoreFirstOnTies ==
    (cost_pc = "done" /\ original_name # None) =>
        /\ Candidates = {} => cost_type = ""
        /\ \A i \in Candidates :
              Winner(i) =>
                 cost_type = IF FloatLt(ScoreOf(i), Literal(3, 10)) THEN ""
                             ELSE Strip(name_list[i])

\* two entries of different text share the highest score, which is not below 0.3
C10_Witness ==
    /\ cost_pc = "done" /\ original_name # None
    /\ \E i \in Candidates : \E j \in Candidates :
          /\ i < j
          /\ Winner(i)
          /\ ScoreOf(j) = ScoreOf(i)
          /\ Strip(name_list[j]) # Strip(name_list[i])
          /\ cost_type = Strip(name_list[i])

-----------------------------------------------------------------------------
(***************************************************************************)
(* Properties of the country-code resolver.                                *)
(***************************************************************************)

\* the text handed in, the text looked up, and the names of the table
CountryGiven == StrOf(country)
CountryText == Strip(CountryGiven)
TableNames == DictKeys(name_to_code)
Resolved == code_pc = "done" /\ country # None

\* the two spellings of the name handed in: with And, and with & in its place
AndSpelling ==
    IF StrIn(" And ", CountryGiven) THEN CountryGiven
    ELSE StrReplace(CountryGiven, " & ", " And ")
AmpSpelling == StrReplace(AndSpelling, " And ", " & ")

\* the table holds exactly one of the two spellings, and the name handed in
\* is one of them
OneSpellingListed ==
    /\ StrIn(" And ", AndSpelling)
    /\ AndSpelling # AmpSpelling
    /\ CountryGiven \in {AndSpelling, AmpSpelling}
    /\ (AndSpelling \in TableNames) # (AmpSpelling \in TableNames)

ListedSpelling == IF AndSpelling \in TableNames THEN AndSpelling ELSE AmpSpelling

PlainSpellings ==
    /\ StrReplace(AmpSpelling, " & ", " And ") = AndSpelling
    /\ Normalized(AndSpelling) = AndSpelling
    /\ CountryText = CountryGiven

ScenarioD ==
    /\ CountryGiven = "China, Peoples Republic"
    /\ TableNames = {"China"}

\* C12: resolving "China, Peoples Republic" against a table whose only entry
\* is China returns China's code, and does so through a base name: neither
\* the name nor its And / & variants are in the table.
C12_ScenarioD_ChinaCode ==
    (Resolved /\ ScenarioD) =>
        /\ country_code = DictGet(name_to_code, "China", "")
        /\ ~Hits(name_to_code, CountryText)
        /\ \A i \in 1..3 : ~Hits(name_to_code, Variants(Normalized(CountryText))[i])
        /\ "China" \in SeqToSet(BaseNames(Normalized(CountryText), Suffixes))

\* scenario D resolved to a code that is not empty
C12_Witness ==
    /\ Resolved /\ ScenarioD
    /\ country_code = "CN"

\* no step before the base names hits: the name, its normalized form and the
\* And / & variants, each exact and uppercased
NoEarlierHit ==
    /\ ~Hits(name_to_code, CountryText)
    /\ \A i \in 1..3 : ~Hits(name_to_code, Variants(Normalized(CountryText))[i])

\* C13 as stated: for each of the six suffix patterns and every name B of the
\* table, B followed by the suffix resolves to B's code when no earlier step
\* matches.
C13_SixSuffixes ==
    \A i \in 1..Len(Suffixes) : \A b \in TableNames :
        (Resolved /\ CountryGiven = b \o Suffixes[i] /\ NoEarlierHit) =>
            country_code = DictGet(name_to_code, b, "")

\* the variants of the name looked up, and the ones that hit
VariantList == Variants(Normalized(CountryText))
HitAt(i) == VariantList[i] # "" /\ Hits(name_to_code, VariantList[i])
ExactThenUpper(v) ==
    IF v \in TableNames THEN DictGet(name_to_code, v, "")
    ELSE DictGet(name_to_code, StrUpper(v), "")

\* C14: the code is that of the first hit in the order: the stripped name,
\* its uppercased form, then each variant exact and uppercased; it is '' when
\* nothing hits, when the table is empty and when the name is empty or blank.
C14_FirstHitWins ==
    Resolved =>
        /\ CountryText = "" => country_code = ""
        /\ name_to_code = <<>> => country_code = ""
        /\ (CountryText # "" /\ CountryText \in TableNames) =>
              country_code = DictGet(name_to_code, CountryText, "")
        /\ (CountryText # "" /\ CountryText \notin TableNames
                /\ StrUpper(CountryText) \in TableNames) =>
              country_code = DictGet(name_to_code, StrUpper(CountryText), "")
        /\ (CountryText # "" /\ CountryText \notin TableNames
                /\ StrUpper(CountryText) \notin TableNames) =>
              /\ \A i \in 1..Len(VariantList) :
                    (HitAt(i) /\ \A j \in 1..(i - 1) : ~HitAt(j)) =>
                        country_code = ExactThenUpper(VariantList[i])
              /\ (\A i \in 1..Len(VariantList) : ~HitAt(i)) => country_code = ""

\* the name and its uppercased form are both in the table, under different codes
C14_Witness ==
    /\ Resolved
    /\ CountryText \in TableNames /\ StrUpper(CountryText) \in TableNames
    /\ StrUpper(CountryText) # CountryText
    /\ DictGet(name_to_code, CountryText, "") # DictGet(name_to_code, StrUpper(CountryText), "")
    /\ country_code = DictGet(name_to_code, CountryText, "")

-----------------------------------------------------------------------------
(***************************************************************************)
(* Properties of the field extractor.                                      *)
(***************************************************************************)

Has(key) == tagged # None /\ key \in DOMAIN tagged

\* C15: extract_value returns the text value when the field has one, else the
\* generic content, else the numeric value, else the date value; it returns
\* None when the field is absent, is empty, or carries none of the four; every
\* field has a result.
C15_PriorityOfValues ==
    /\ ext_pc = "done" =>
        /\ Has("valueString") => extracted = tagged["valueString"]
        /\ (~Has("valueString") /\ Has("content")) => extracted = tagged["content"]
        /\ (~Has("valueString") /\ ~Has("content") /\ Has("valueNumber")) =>
              extracted = tagged["valueNumber"]
        /\ (~Has("valueString") /\ ~Has("content") /\ ~Has("valueNumber")
                /\ Has("valueDate")) => extracted = tagged["valueDate"]
        /\ (~Has("valueString") /\ ~Has("content") /\ ~Has("valueNumber")
                /\ ~Has("valueDate")) => extracted = None
    /\ ext_pc = "input" => ENABLED ExtNext

\* a field with all four values, which differ, gave its text value
C15_Witness ==
    /\ ext_pc = "done"
    /\ Has("valueString") /\ Has("content") /\ Has("valueNumber") /\ Has("valueDate")
    /\ tagged["valueString"] # tagged["content"]
    /\ extracted = tagged["valueString"]

-----------------------------------------------------------------------------
(***************************************************************************)
(* Properties of the category specs of the matrix builder.                 *)
(***************************************************************************)

\* the category of a section ('' when it has none), the categories of the
\* section list and the sections of a category
CategoryOf(i) == OrEmpty(main_costs[i].cost_category)
Categories == {CategoryOf(i) : i \in 1..Len(main_costs)}
SectionsOf(cat) == {i \in 1..Len(main_costs) : CategoryOf(i) = cat}
FirstSection(cat) == CHOOSE i \in SectionsOf(cat) : \A j \in SectionsOf(cat) : i <= j

\* the non-empty weight labels of all sections of a category
LabelsOf(cat) ==
    { w \in UNION { {main_costs[i].pricing[p].weight : p \in 1..Len(main_costs[i].pricing)} :
                      i \in SectionsOf(cat) } : Truthy(w) }

ParsesAsNumber(w) == WeightFloat(w).kind # "bad"

\* a list of text labels in strictly ascending lexical order
Lexical(weights) ==
    \A a, b \in 1..Len(weights) :
        a < b => /\ weights[a].k = "str" /\ weights[b].k = "str"
                 /\ StrLess(weights[a].s, weights[b].s)

\* a list of labels in ascending order of their numeric values
Numerical(weights) ==
    \A a, b \in 1..Len(weights) :
        a < b => ~FloatLess(WeightFloat(weights[b]), WeightFloat(weights[a]))

\* C16 as stated: the build never fails because of the weight labels, and a
\* category with a label that does not parse as a number has its weights in
\* lexical order, whatever text or numeric labels the sections carry.
C16_WeightsNeverFatal ==
    /\ mx_pc # "raised"
    /\ mx_pc = "built" =>
          \A j \in 1..Len(category_specs) :
              (\E w \in LabelsOf(category_specs[j].cat) : ~ParsesAsNumber(w)) =>
                  Lexical(category_specs[j].weights)

\* C17: the builder returns one category spec per distinct cost_category, in
\* the order of the categories' first sections; the spec's weights are the
\* non-empty labels of all sections of the category, each once, in numeric
\* order when all parse as numbers and in lexical order otherwise; its unit
\* is that of the category's first section, "KG" when that has none.
C17_CategorySpecs ==
    mx_pc = "built" =>
        /\ {category_specs[j].cat : j \in 1..Len(category_specs)} = Categories
        /\ Len(category_specs) = Cardinality(Categories)
        /\ \A j, k \in 1..Len(category_specs) :
              j < k => FirstSection(category_specs[j].cat) < FirstSection(category_specs[k].cat)
        /\ \A j \in 1..Len(category_specs) :
              /\ SeqToSet(category_specs[j].weights) = LabelsOf(category_specs[j].cat)
              /\ Len(category_specs[j].weights) = Cardinality(LabelsOf(category_specs[j].cat))
              /\ IF \A w \in LabelsOf(category_specs[j].cat) : ParsesAsNumber(w)
                 THEN Numerical(category_specs[j].weights)
                 ELSE Lexical(category_specs[j].weights)
              /\ category_specs[j].unit =
                    IF Truthy(main_costs[FirstSection(category_specs[j].cat)].weight_unit)
                    THEN main_costs[FirstSection(category_specs[j].cat)].weight_unit
                    ELSE Str("KG")

\* two sections of one category, the first without a unit, whose labels do
\* not all parse: one spec with unit KG and the three labels in lexical order
C17_Witness ==
    /\ mx_pc = "built"
    /\ Len(main_costs) = 2 /\ Len(category_specs) = 1
    /\ main_costs[1].weight_unit = None
    /\ category_specs[1].unit = Str("KG")
    /\ category_specs[1].weights = <<Str("10"), Str("2"), Str("abc")>>

-----------------------------------------------------------------------------
(***************************************************************************)
(* Properties of the lanes the expander keeps.                             *)
(***************************************************************************)

\* the three kinds of lane that are not expanded: without matrix zone, with
\* a service that resolves to no matrix name ("" stands for none), with a
\* matrix name under which the lane's zone letter has no pairs
EmptyZone(row) == Strip(row.Matrix_zone) = ""
NoMatrixName(matrix_name) == matrix_name = ""
NoPairs(row, matrix_name) ==
    /\ matrix_name # ""
    /\ DictGet(ZoningLookup, <<matrix_name, _matrix_zone_to_letter(row.Matrix_zone)>>, <<>>) = <<>>
Unmatched(row) ==
    \/ EmptyZone(row)
    \/ \E matrix_name \in {_find_matrix_for_service(set_order, row.Service)} :
          NoMatrixName(matrix_name) \/ NoPairs(row, matrix_name)

\* two lanes that differ at most in their lane number
SameLane(a, b) ==
    /\ a.Origin = b.Origin /\ a.Destination = b.Destination
    /\ a.Service = b.Service /\ a.Matrix_zone = b.Matrix_zone
    /\ a.costs = b.costs

\* C18: after expansion every lane with an empty matrix zone, every lane
\* whose service resolves to no matrix name and every lane whose (matrix
\* name, zone letter) has no pairs is in the output as often as in the input,
\* which is once, with origin, destination, service, matrix zone and costs
\* unchanged.
C18_UnmatchedLanesKept ==
    mx_pc = "expanded" =>
        \A i \in 1..Len(matrix_rows) :
            Unmatched(matrix_rows[i]) =>
                /\ Cardinality({j \in 1..Len(expanded) :
                                   SameLane(expanded[j], matrix_rows[i])}) = 1
                /\ Cardinality({k \in 1..Len(matrix_rows) :
                                   SameLane(matrix_rows[k], matrix_rows[i])}) = 1

\* an expansion that cloned one lane and kept a lane without matrix zone and
\* a lane whose matrix has no pairs under its letter
C18_Witness ==
    /\ mx_pc = "expanded"
    /\ Len(expanded) > Len(matrix_rows)
    /\ \E i \in 1..Len(matrix_rows) : EmptyZone(matrix_rows[i])
    /\ \E i \in 1..Len(matrix_rows) :
          /\ ~EmptyZone(matrix_rows[i])
          /\ NoPairs(matrix_rows[i],
                     _find_matrix_for_service(set_order, matrix_rows[i].Service))
          /\ \E j \in 1..Len(expanded) : SameLane(expanded[j], matrix_rows[i])

-----------------------------------------------------------------------------
(***************************************************************************)
(* Properties of the rows of the segmenter.                                *)
(***************************************************************************)

\* the extracted value of a field of row i, None when the row has no such field
Extracted(i, name) == extract_value(DictGet(ValueObjectOf(value_array[i]), name, None))
NonEmpty(v) == v # None /\ v # Str("") /\ v # Num(0)

\* row i carries a non-empty RateName or CostName / is any other row
NamedRow(i) ==
    /\ value_array[i].type = "object"
    /\ NonEmpty(Extracted(i, "RateName")) \/ NonEmpty(Extracted(i, "CostName"))
OtherRow(i) == value_array[i].type = "object" /\ ~NamedRow(i)

\* the rows the loop has gone through, and the named rows among them
Processed == IF seg_pc = "start" THEN {} ELSE 1..(seg_idx - 1)
NamedSoFar == {h \in Processed : NamedRow(h)}
LastNamed == CHOOSE h \in NamedSoFar : \A g \in NamedSoFar : g <= h

\* C19: a row opens a section if and only if its extracted RateName or
\* CostName is non-empty: the current section is that of the last such row
\* gone through, named after it, and holds price rows of later other rows
\* only; as long as no such row has come there is no section, so that a data
\* row before the first header row contributes to nothing.
C19_HeaderIffNamed ==
    IF NamedSoFar = {}
    THEN current_rate_card = None /\ rate_cards = <<>>
    ELSE /\ current_rate_card # None
         /\ current_rate_card.service_type = Extracted(LastNamed, "RateName")
         /\ current_rate_card.cost_category = Extracted(LastNamed, "CostName")
         /\ Len(current_rate_card.pricing)
               <= Cardinality({d \in Processed : d > LastNamed /\ OtherRow(d)})
         /\ Len(rate_cards) <= Cardinality(NamedSoFar)

\* the 'Zone*' fields of row i and those with a non-empty extracted value
ZoneFields(i) ==
    {e \in SeqToSet(ValueObjectOf(value_array[i])) : StartsWith(e.key, "Zone")}
PricedZones(i) == {e \in ZoneFields(i) : NonEmpty(extract_value(e.val))}

\* a data row with a weight and priced zones came first and was ignored, and
\* a row with a CostName alone opened the section that was returned
C19_Witness ==
    /\ seg_pc = "done"
    /\ Len(value_array) = 3
    /\ OtherRow(1) /\ NonEmpty(Extracted(1, "Weight")) /\ PricedZones(1) # {}
    /\ NamedRow(2) /\ ~NonEmpty(Extracted(2, "RateName"))
    /\ OtherRow(3)
    /\ Len(rate_cards) = 1 /\ Len(rate_cards[1].pricing) = 1

\* the section after a price row was added for row i
WithPriceRow(card, after, i) ==
    /\ after # None
    /\ Len(after.pricing) = Len(card.pricing) + 1
    /\ SubSeq(after.pricing, 1, Len(card.pricing)) = card.pricing
    /\ after = [card EXCEPT !.pricing = after.pricing]
    /\ after.pricing[Len(after.pricing)].weight = Extracted(i, "Weight")
    /\ Len(after.pricing[Len(after.pricing)].zone_prices) = Cardinality(PricedZones(i))
    /\ {<<e.key, e.val>> : e \in SeqToSet(after.pricing[Len(after.pricing)].zone_prices)}
          = {<<e.key, extract_value(e.val)>> : e \in PricedZones(i)}

\* C20: a data row met while a section is open adds a price row to it if and
\* only if its extracted Weight is non-empty and one of its Zone* fields has a
\* non-empty extracted value; the price row has that weight and exactly the
\* Zone* fields with non-empty values; '', 0 and None count as empty.
C20_PriceRowIffWeightAndZone ==
    [][ (/\ seg_pc = "loop" /\ seg_idx <= Len(value_array)
         /\ OtherRow(seg_idx) /\ current_rate_card # None) =>
            IF NonEmpty(Extracted(seg_idx, "Weight")) /\ PricedZones(seg_idx) # {}
            THEN WithPriceRow(current_rate_card, current_rate_card', seg_idx)
            ELSE current_rate_card' = current_rate_card ]_vars

\* the open section holds the price row of a data row one of whose two zone
\* prices is zero, after a data row whose weight is zero added nothing
C20_Witness ==
    /\ seg_pc = "loop" /\ seg_idx = 4
    /\ NamedRow(1)
    /\ OtherRow(2) /\ Extracted(2, "Weight") = Num(0) /\ PricedZones(2) # {}
    /\ OtherRow(3) /\ Cardinality(ZoneFields(3)) = 2 /\ Cardinality(PricedZones(3)) = 1
    /\ current_rate_card # None
    /\ Len(current_rate_card.pricing) = 1
    /\ Len(current_rate_card.pricing[1].zone_prices) = 1

-----------------------------------------------------------------------------
(***************************************************************************)
(* Properties of the sections returned by the segmenter.                   *)
(***************************************************************************)

\* the elements of a set of positions in ascending order
Ascending(S) ==
    AsList([k \in 1..Cardinality(S) |->
               CHOOSE x \in S : Cardinality({y \in S : y < x}) = k - 1])

\* the named rows of the input, and the first one after row h (or the end)
NamedRows == {h \in 1..Len(value_array) : NamedRow(h)}
NextNamed(h) ==
    IF \E m \in NamedRows : m > h
    THEN CHOOSE m \in NamedRows : m > h /\ \A g \in NamedRows : g > h => m <= g
    ELSE Len(value_array) + 1

\* the data rows with a weight and a price between row h and the next named row
PricedRowsOf(h) ==
    {j \in (h + 1)..(NextNamed(h) - 1) :
        OtherRow(j) /\ NonEmpty(Extracted(j, "Weight")) /\ PricedZones(j) # {}}

\* the named rows whose section is closed: by a later named row gone through,
\* or by the end of input
ClosedRows ==
    {h \in NamedRows :
        \/ seg_pc = "done"
        \/ seg_pc = "loop" /\ NextNamed(h) < seg_idx}
EmittingRows == Ascending({h \in ClosedRows : PricedRowsOf(h) # {}})

\* price row p is the one of data row j
IsPriceRowOf(p, j) ==
    /\ p.weight = Extracted(j, "Weight")
    /\ Len(p.zone_prices) = Cardinality(PricedZones(j))
    /\ {<<e.key, e.val>> : e \in SeqToSet(p.zone_prices)}
          = {<<e.key, extract_value(e.val)>> : e \in PricedZones(j)}

\* section card is the one of named row h
IsSectionOf(card, h) ==
    /\ card.service_type = Extracted(h, "RateName")
    /\ card.cost_category = Extracted(h, "CostName")
    /\ Len(card.pricing) = Cardinality(PricedRowsOf(h))
    /\ \A k \in 1..Len(card.pricing) :
           IsPriceRowOf(card.pricing[k], Ascending(PricedRowsOf(h))[k])

\* C21: the sections emitted are those of the header rows that have a priced
\* data row before the next header row (or before the end of input, for the
\* last header row), one section per such header row, in the order of the
\* header rows; the price rows of a section are those of the data rows
\* between its header row and the next one, in input order.
C21_SectionsFollowInput ==
    /\ Len(rate_cards) = Len(EmittingRows)
    /\ \A k \in 1..Len(rate_cards) : IsSectionOf(rate_cards[k], EmittingRows[k])

\* two sections returned, the first closed by a header row with two price
\* rows in it, the second by the end of input
C21_Witness ==
    /\ seg_pc = "done"
    /\ Len(rate_cards) = 2
    /\ Len(rate_cards[1].pricing) = 2
    /\ rate_cards[1].pricing[1] # rate_cards[1].pricing[2]
    /\ NamedRow(1) /\ NamedRow(4) /\ Len(value_array) = 5

-----------------------------------------------------------------------------
(***************************************************************************)
(* Properties of the lanes the matrix builder creates.                     *)
(***************************************************************************)

\* the service of section i without surrounding whitespace, '' when missing
ServiceOf(i) ==
    IF main_costs[i].service_type = None THEN "" ELSE Strip(main_costs[i].service_type.s)

\* the zone label a zone key of section i resolves to: its header, else the key
LabelOf(i, zone_key) ==
    IF \E h \in SeqToSet(main_costs[i].zone_headers) : h.key = zone_key
    THEN (CHOOSE h \in SeqToSet(main_costs[i].zone_headers) : h.key = zone_key).val.s
    ELSE zone_key

\* the (service, zone label) pairs that occur in the price rows
PricedKeys(i) ==
    { e.key : e \in UNION { SeqToSet(p.zone_prices) : p \in SeqToSet(main_costs[i].pricing) } }
OccurringPairs ==
    UNION { { <<ServiceOf(i), LabelOf(i, zone_key)>> : zone_key \in PricedKeys(i) } :
              i \in 1..Len(main_costs) }

\* the label, read without surrounding whitespace and without a leading
\* "Zone " in any case, contains a letter
HasLetter(s) == \E i \in 1..Len(s) : IsAlpha(CharAt(s, i))
WithoutZone(s) == IF Len(s) >= 5 /\ StrUpper(Upto(s, 5)) = "ZONE " THEN From(s, 5) ELSE s
Lettered(label) == HasLetter(WithoutZone(Strip(label)))

\* the service contains the keyword, in any case
Mentions(service, keyword) == StrIn(StrUpper(keyword), StrUpper(service))

\* the lane as created for the pair
CreatedFor(row, service, label) ==
    /\ row.Service = service
    /\ row.Matrix_zone = (IF Lettered(label) THEN label ELSE "")
    /\ row.Origin = (IF Mentions(service, "import") THEN label ELSE "")
    /\ row.Destination = (IF Mentions(service, "export") THEN label ELSE "")

\* C22: the builder creates exactly one lane per distinct (service, resolved
\* zone label) pair of the price rows; at creation its matrix zone is the
\* label when the label without a leading "Zone " contains a letter and empty
\* otherwise, its origin is the label when the service contains "import",
\* its destination is the label when the service contains "export", and both
\* are empty when the service contains neither.
C22_OneLanePerPair ==
    mx_pc = "built" =>
        /\ Len(lane_rows) = Cardinality(OccurringPairs)
        /\ Len(matrix_rows) = Cardinality(OccurringPairs)
        /\ {lane_rows[k].key : k \in 1..Len(lane_rows)} = OccurringPairs
        /\ \A k \in 1..Len(lane_rows) :
               CreatedFor(lane_rows[k].val, lane_rows[k].key[1], lane_rows[k].key[2])

\* two sections of a service with "import" share a pair and differ in
\* another: three lanes, of lettered and of numbered labels
C22_Witness ==
    /\ mx_pc = "built"
    /\ Len(main_costs) = 2
    /\ Len(lane_rows) = 3
    /\ main_costs[1].service_type = main_costs[2].service_type
    /\ Mentions(lane_rows[1].val.Service, "import")
    /\ \E k \in 1..3 : lane_rows[k].val.Matrix_zone # "" /\ lane_rows[k].val.Origin # ""
    /\ \E k \in 1..3 : lane_rows[k].val.Matrix_zone = "" /\ lane_rows[k].val.Origin # ""

-----------------------------------------------------------------------------
(***************************************************************************)
(* Properties of the post-fill of the matrix builder.                      *)
(***************************************************************************)

\* lane k of the returned list as it was created
Created(k) == DictGet(lane_rows, sorted_keys[k], None)

\* v is what the post-fill leaves in a field created as made: the carrier's
\* token where the field was empty
FilledWhereEmpty(v, made) ==
    IF made = "" THEN IsLastToken(v, OrText(carrier)) ELSE v = made

\* C23: after the post-fill a lane of the service "DHL EXPRESS DOMESTIC" has
\* the last whitespace-delimited token of the carrier text as origin and as
\* destination; any other lane with an empty matrix zone has the token where
\* its origin or destination was empty and keeps the rest; any other lane
\* with a matrix zone keeps the origin and destination it was created with.
C23_PostFill ==
    mx_pc = "built" =>
        /\ Len(matrix_rows) = Len(sorted_keys)
        /\ \A k \in 1..Len(matrix_rows) :
               IF matrix_rows[k].Service = "DHL EXPRESS DOMESTIC"
               THEN /\ IsLastToken(matrix_rows[k].Origin, OrText(carrier))
                    /\ IsLastToken(matrix_rows[k].Destination, OrText(carrier))
               ELSE IF Created(k).Matrix_zone = ""
               THEN /\ FilledWhereEmpty(matrix_rows[k].Origin, Created(k).Origin)
                    /\ FilledWhereEmpty(matrix_rows[k].Destination, Created(k).Destination)
               ELSE /\ matrix_rows[k].Origin = Created(k).Origin
                    /\ matrix_rows[k].Destination = Created(k).Destination

\* with a carrier text ending in France: a domestic lane with a matrix zone,
\* a lane without matrix zone whose origin is kept and whose destination is
\* filled, and a lane with a matrix zone whose empty destination stays empty
C23_Witness ==
    /\ mx_pc = "built"
    /\ IsLastToken("France", OrText(carrier))
    /\ \E k \in 1..Len(matrix_rows) :
          /\ matrix_rows[k].Service = "DHL EXPRESS DOMESTIC"
          /\ matrix_rows[k].Matrix_zone # ""
          /\ matrix_rows[k].Origin = "France" /\ matrix_rows[k].Destination = "France"
    /\ \E k \in 1..Len(matrix_rows) :
          /\ matrix_rows[k].Service # "DHL EXPRESS DOMESTIC"
          /\ matrix_rows[k].Matrix_zone = ""
          /\ matrix_rows[k].Origin = "Zone 1" /\ matrix_rows[k].Destination = "France"
    /\ \E k \in 1..Len(matrix_rows) :
          /\ matrix_rows[k].Service # "DHL EXPRESS DOMESTIC"
          /\ matrix_rows[k].Matrix_zone # ""
          /\ matrix_rows[k].Origin # "" /\ matrix_rows[k].Destination = ""

-----------------------------------------------------------------------------
(***************************************************************************)
(* Properties of the lookup built by the zoning parser.                    *)
(***************************************************************************)

\* the text of a field of row i without surrounding whitespace, '' when the
\* field is missing or None
CellText(i, field_name) == Strip(OrText(DictGet(zoning_matrix[i], field_name, None)))

\* row i is a header row (it names a matrix) / the last header row before row i
NamesMatrix(i) == CellText(i, "MatrixName") # ""
HeadersBefore(i) == {h \in 1..(i - 1) : NamesMatrix(h)}
Governing(i) == CHOOSE h \in HeadersBefore(i) : \A g \in HeadersBefore(i) : g <= h

\* the destination columns of header row h, and the destination number in one
DestColumns(h) == {k \in DictKeys(zoning_matrix[h]) : IsDestKey(k)}
DestNumberIn(h, k) == Strip(StrOf(DictGet(zoning_matrix[h], k, Str(""))))

\* the cells that contribute a pair: <<i, k>> for a data row i under a header
\* row, with an origin zone, and a column k of that header row with a
\* destination number and a letter in row i
Cells ==
    { c \in UNION { { <<i, k>> : k \in DestColumns(Governing(i)) } :
                       i \in {j \in 1..Len(zoning_matrix) :
                                 ~NamesMatrix(j) /\ HeadersBefore(j) # {}} } :
        /\ CellText(c[1], "OriginZone") # ""
        /\ DestNumberIn(Governing(c[1]), c[2]) # ""
        /\ CellText(c[1], c[2]) # "" }

\* the key a cell belongs to and the pair it contributes
KeyOfCell(c) == <<CellText(Governing(c[1]), "MatrixName"), StrUpper(CellText(c[1], c[2]))>>
PairOfCell(c) == <<CellText(c[1], "OriginZone"), DestNumberIn(Governing(c[1]), c[2])>>

\* encounter order: by row, then by the numeric suffix of the column
Earlier(c, d) ==
    \/ c[1] < d[1]
    \/ c[1] = d[1] /\ DestKeyNumber(c[2]) < DestKeyNumber(d[2])

\* the pairs of the cells of a key in encounter order
CellsOf(key) == {c \in Cells : KeyOfCell(c) = key}
EncounterList(S) ==
    AsList([n \in 1..Cardinality(S) |->
               PairOfCell(CHOOSE c \in S : Cardinality({d \in S : Earlier(d, c)}) = n - 1)])

\* C24: in the lookup every key's zone letter is uppercase, every pair has a
\* non-empty origin zone and a non-empty destination number, and the pairs
\* under a key are those of the data rows under header rows of that matrix
\* name, in the order of the rows and, within a row, of the numeric suffix of
\* the destination columns, duplicates kept; a data row before the first
\* header row contributes nothing, and every data row counts for the matrix
\* of the last header row before it.
C24_LookupInEncounterOrder ==
    mx_pc = "parsed" =>
        /\ DictKeys(parsed_lookup) = {KeyOfCell(c) : c \in Cells}
        /\ \A n \in 1..Len(parsed_lookup) :
              /\ parsed_lookup[n].key[2] = StrUpper(parsed_lookup[n].key[2])
              /\ \A m \in 1..Len(parsed_lookup[n].val) :
                    parsed_lookup[n].val[m][1] # "" /\ parsed_lookup[n].val[m][2] # ""
              /\ parsed_lookup[n].val = EncounterList(CellsOf(parsed_lookup[n].key))

\* a data row before the header row adds nothing and two equal data rows
\* after it add the pairs (1,4), (1,9) twice under E, column 2 before column 10
C24_Witness ==
    /\ mx_pc = "parsed"
    /\ Len(zoning_matrix) = 4
    /\ ~NamesMatrix(1) /\ CellText(1, "OriginZone") = "1"
    /\ NamesMatrix(2)
    /\ DictGet(parsed_lookup, <<"DHL EXPRESS ZONE MATRIX", "E">>, <<>>)
          = << <<"1", "4">>, <<"1", "9">>, <<"1", "4">>, <<"1", "9">> >>

-----------------------------------------------------------------------------
(***************************************************************************)
(* Properties of the clones made by the zoning expander.                   *)
(***************************************************************************)

\* the stored pairs of every lane handed to the expander, none for a lane
\* without matrix zone
StoredPairs ==
    AsList([i \in 1..Len(matrix_rows) |->
               IF EmptyZone(matrix_rows[i]) THEN <<>> ELSE LookupPairs(matrix_rows[i])])

\* the place in the output of the first lane made from lane i
PlaceOf(stored, i) == 1 + SeqSum([k \in 1..(i - 1) |-> AtLeastOne(Len(stored[k]))])

\* lane is the clone of source for the pair
IsCloneOf(lane, source, pair) ==
    /\ lane.Origin = "Zone " \o pair[1]
    /\ lane.Destination = "Zone " \o pair[2]
    /\ lane.Service = source.Service
    /\ lane.Matrix_zone = source.Matrix_zone
    /\ lane.costs = source.costs

\* C25: an expanded lane is replaced, at its place in the list, by one clone
\* per stored pair in the stored order, with origin "Zone " and the origin
\* zone, destination "Zone " and the destination zone, and the service,
\* matrix zone and costs of the lane; the other lanes stay as they are, and
\* all lanes keep their relative order.
C25_ClonesInPairOrder ==
    mx_pc = "expanded" =>
        \E stored \in {StoredPairs} :
            /\ Len(expanded) = PlaceOf(stored, Len(matrix_rows) + 1) - 1
            /\ \A i \in 1..Len(matrix_rows) :
                  IF stored[i] = <<>>
                  THEN SameLane(expanded[PlaceOf(stored, i)], matrix_rows[i])
                  ELSE \A j \in 1..Len(stored[i]) :
                          IsCloneOf(expanded[PlaceOf(stored, i) + j - 1],
                                    matrix_rows[i], stored[i][j])

\* a lane with two stored pairs between a lane before it and a lane after it
C25_Witness ==
    /\ mx_pc = "expanded"
    /\ \E i \in 2..(Len(matrix_rows) - 1) :
          /\ ~EmptyZone(matrix_rows[i])
          /\ Len(LookupPairs(matrix_rows[i])) = 2
          /\ LookupPairs(matrix_rows[i])[1] # LookupPairs(matrix_rows[i])[2]
    /\ Len(expanded) > Len(matrix_rows)

\* the lanes made from a lane with stored pairs, by their places
ClonePlaces(stored) ==
    UNION { (PlaceOf(stored, i))..(PlaceOf(stored, i) + Len(stored[i]) - 1) :
              i \in {k \in 1..Len(matrix_rows) : stored[k] # <<>>} }

\* C26 as stated: every lane made by the expansion from a matched
\* matrix-coded lane has an empty matrix zone.
C26_ResolvedZoneEmpty ==
    mx_pc = "expanded" =>
        \E stored \in {StoredPairs} :
            \A j \in ClonePlaces(stored) : expanded[j].Matrix_zone = ""

\* C26, amended: the expansion never empties a matrix zone: every lane made
\* from a matched matrix-coded lane carries the zone label of that lane, which
\* is not empty, and the output has as many lanes with a matrix zone as the
\* matched lanes have pairs plus the unmatched matrix-coded lanes.
C26_ResolvedZoneKept ==
    mx_pc = "expanded" =>
        \E stored \in {StoredPairs} :
            /\ \A i \in 1..Len(matrix_rows) : \A j \in 1..Len(stored[i]) :
                  /\ expanded[PlaceOf(stored, i) + j - 1].Matrix_zone = matrix_rows[i].Matrix_zone
                  /\ Strip(expanded[PlaceOf(stored, i) + j - 1].Matrix_zone) # ""
            /\ Cardinality({j \in 1..Len(expanded) : ~EmptyZone(expanded[j])})
                  = SeqSum([i \in 1..Len(matrix_rows) |->
                               IF EmptyZone(matrix_rows[i]) THEN 0
                               ELSE AtLeastOne(Len(stored[i]))])

\* an expansion with a clone whose origin and destination come from a pair
\* and whose matrix zone is still the zone label
C26_Witness ==
    /\ mx_pc = "expanded"
    /\ \E j \in 1..Len(expanded) :
          /\ expanded[j].Matrix_zone = "Zone E"
          /\ expanded[j].Origin = "Zone 1" /\ expanded[j].Destination = "Zone 3"
    /\ \E j \in 1..Len(expanded) : EmptyZone(expanded[j])

-----------------------------------------------------------------------------
(***************************************************************************)
(* The matrix finder on its own: _find_matrix_for_service over lookups     *)
(* whose matrix names reach each of the three tiers.                       *)
(***************************************************************************)

\* matrix names of a lookup and services of lanes
FindNames ==
    {"DHL EXPRESS THIRD COUNTRY ZONE MATRIX", "DHL EXPRESS ZONE MATRIX", "DHL ZONE MATRIX",
     "ECONOMY", "ZONE MATRIX"}
FindServices ==
    {"", "  ", "FEDEX", "DHL EXPRESS", " DHL EXPRESS ZONE MATRIX", "DHL EXPRESS ZONE", "dhl express",
     "DHL EXPRESS THIRD COUNTRY IMPORT", "DHL EXPRESS WORLDWIDE THIRD COUNTRY",
     "ECONOMY DHL EXPRESS", "ECONOMY EXPRESS DHL"}

\* the orders in which a run may iterate the set of at most n names of S
OrdersUpTo(S, n) ==
    UNION {Orderings(T) : T \in {U \in SUBSET S : Cardinality(U) <= n}}

FindInit ==
    /\ find_order \in OrdersUpTo(FindNames, MaxMatrixNames)
    /\ find_service \in FindServices
    /\ find_result = ""
    /\ find_pc = "input"
    /\ original_name = None
    /\ name_list = <<>>
    /\ cost_idx = 1
    /\ best_score = [sign |-> -1, bits |-> <<1>>, ex |-> 0]
    /\ best_name = ""
    /\ cost_type = ""
    /\ cost_pc = "idle"
    /\ main_costs_field = None
    /\ seg_idx = 1
    /\ current_rate_card = None
    /\ rate_cards = <<>>
    /\ seg_pc = "idle"
    /\ main_costs = <<>>
    /\ carrier = None
    /\ zoning_matrix = <<>>
    /\ parsed_lookup = <<>>
    /\ set_order = <<>>
    /\ lane_rows = <<>>
    /\ sorted_keys = <<>>
    /\ matrix_rows = <<>>
    /\ expanded = <<>>
    /\ category_specs = <<>>
    /\ mx_pc = "idle"
    /\ country = None
    /\ name_to_code = <<>>
    /\ country_code = ""
    /\ code_pc = "idle"
    /\ tagged = None
    /\ extracted = None
    /\ ext_pc = "idle"
    /\ fill_input = None
    /\ fill_data = None
    /\ filled_count = 0
    /\ fill_pc = "idle"
    /\ steps_run = <<>>
    /\ json_written = FALSE
    /\ xlsx_written = FALSE
    /\ txt_written = FALSE
    /\ input_at = "input"
    /\ archive_folder = ""
    /\ archive_names = {}
    /\ archived_to = <<>>
    /\ pipe_pc = "idle"

\* name = _find_matrix_for_service(zoning_lookup, service)
Find ==
    /\ find_pc = "input"
    /\ find_result' = _find_matrix_for_service(find_order, find_service)
    /\ find_pc' = "done"
    /\ UNCHANGED <<find_order, find_service, seg_vars, mx_vars, cost_vars, code_vars, ext_vars,
                   fill_vars, pipe_vars>>

FindSpec == FindInit /\ [][Find]_vars

\* the service as the function reads it, and the names of the lookup
FoundFor == Strip(find_service)
FindKnown == SeqToSet(find_order)

\* the names passing tier (i), (ii) and (iii) for the service read
TierDirect == {mn \in FindKnown : StrIn(FoundFor, mn) \/ StrIn(mn, FoundFor)}
TierNormalized ==
    {mn \in FindKnown : LET normalized == Strip(StrReplace(mn, " ZONE MATRIX", ""))
                        IN  StrIn(FoundFor, normalized) \/ StrIn(normalized, FoundFor)}
TierWords ==
    {mn \in FindKnown : LET matrix_words == _main_words(StrReplace(mn, " ZONE MATRIX", ""))
                        IN  matrix_words # {} /\ matrix_words \subseteq _main_words(FoundFor)}

\* C27: _find_matrix_for_service tries the tiers in order and a match in an
\* earlier tier wins over any match in a later tier: (i) the service is a
\* substring of a matrix name or the reverse; (ii) the same test after
\* removing " ZONE MATRIX" from the matrix name; (iii) the name's uppercase
\* word set without ZONE and MATRIX is non-empty and contained in the
\* service's word set.  It returns no name when the service is empty or no
\* tier matches.
C27_EarlierTierWins ==
    find_pc = "done" =>
        IF FoundFor = "" THEN find_result = ""
        ELSE IF TierDirect # {} THEN find_result \in TierDirect
        ELSE IF TierNormalized # {} THEN find_result \in TierNormalized
        ELSE IF TierWords # {} THEN find_result \in TierWords
        ELSE find_result = ""

\* the first name iterated matches by main words only, a later one by the
\* normalized substring test, and the later one is returned
C27_Witness ==
    /\ find_pc = "done"
    /\ Len(find_order) >= 2
    /\ find_order[1] \in TierWords \ (TierDirect \cup TierNormalized)
    /\ TierDirect = {}
    /\ find_result \in TierNormalized
    /\ find_result # find_order[1]

-----------------------------------------------------------------------------
\* the prices stored in the lanes returned by the builder, as
\* [key |-> <<cost category, weight>>, val |-> price]
StoredPrices == UNION {SeqToSet(matrix_rows[i].costs) : i \in 1..Len(matrix_rows)}

\* a weight label that is not empty: the test of line 320, which a price row
\* kept by process_main_costs always passes
NonEmptyLabel(weight) == weight \notin {None, Str(""), Num(0)}

\* write_matrix_sheet looks a price up under (cost_cat_name, w) for every w of
\* the spec of cost_cat_name
HasColumn(key) ==
    \E j \in 1..Len(category_specs) :
        /\ category_specs[j].cat = key[1]
        /\ \E n \in 1..Len(category_specs[j].weights) : category_specs[j].weights[n] = key[2]

\* C28: every price stored in a lane by build_matrix_main_costs under a key
\* (cost category, weight label) with a non-empty weight label has a column in
\* the returned category specs: a spec for that cost category exists and its
\* weight list contains that weight label.
C28_EveryPriceHasColumn ==
    mx_pc = "built" =>
        \A e \in StoredPrices : NonEmptyLabel(e.key[2]) => HasColumn(e.key)

\* two different sections of one category are merged into one lane whose
\* prices carry weights of both sections
C28_Witness ==
    /\ mx_pc = "built"
    /\ Len(main_costs) = 2
    /\ main_costs[1].cost_category = main_costs[2].cost_category
    /\ WeightSet(main_costs[1]) \ WeightSet(main_costs[2]) # {}
    /\ WeightSet(main_costs[2]) \ WeightSet(main_costs[1]) # {}
    /\ Len(matrix_rows) = 1
    /\ Len(category_specs) = 1
    /\ \A w \in WeightSet(main_costs[1]) \cup WeightSet(main_costs[2]) :
          \E e \in StoredPrices : e.key[2] = w /\ HasColumn(e.key)

-----------------------------------------------------------------------------
(***************************************************************************)
(* fill_null_service_types (src/fill_service_types.py).  data is the dict  *)
(* of the extracted JSON; only its key MainCosts is read.  A section is a  *)
(* dict of which service_type is read and written; cost_category stands    *)
(* for the keys the function leaves alone.                                 *)
(***************************************************************************)

\* a JSON list
List(items) == [k |-> "list", items |-> items]

\* section.get('service_type')
ServiceTypeOf(section) ==
    IF section.service_type = Absent THEN None ELSE section.service_type

\* '' taken for null as well
IsNull_Falsy(v) == ~Truthy(v)
\* v is None
IsNull(v) == v = None

\* lines 24-29: the for loop, from the sections not yet visited, with
\* last_service_type, the sections visited and filled_count
RECURSIVE FillLoop(_, _, _, _)
FillLoop(sections, last_service_type, visited, count) ==
    IF sections = <<>> THEN [items |-> visited, filled_count |-> count]
    ELSE LET section == Head(sections)
             fills == IsNull(ServiceTypeOf(section)) /\ ~IsNull(last_service_type)
             after == IF fills THEN [section EXCEPT !.service_type = last_service_type]
                      ELSE section
         IN  FillLoop(Tail(sections),
                      IF ~IsNull(ServiceTypeOf(after)) THEN ServiceTypeOf(after)
                      ELSE last_service_type,
                      Append(visited, after),
                      IF fills THEN count + 1 ELSE count)

\* data.get('MainCosts', []), <<>> when it is not a list with sections
MainCostsOf(data) ==
    IF "MainCosts" \in DOMAIN data /\ data.MainCosts.k = "list" THEN data.MainCosts.items
    ELSE <<>>

\* fill_null_service_types(data): data as it is left, and the returned count
fill_null_service_types(data) ==
    IF MainCostsOf(data) = <<>> THEN [data |-> data, filled_count |-> 0]
    ELSE LET done == FillLoop(MainCostsOf(data), None, <<>>, 0)
         IN  [data |-> [data EXCEPT !.MainCosts = List(done.items)],
              filled_count |-> done.filled_count]

\* sections whose service_type is missing, null, '' or a name
FillTypes == {Absent, None, Str(""), Str("DHL EXPRESS IMPORT"), Str("DHL EXPRESS EXPORT")}
FillSectionPool ==
    {[service_type |-> t, cost_category |-> c] :
        t \in FillTypes, c \in {Str("Documents"), Str("Envelope")}}
NoMainCosts == [t \in {} |-> None]
FillDataPool ==
    {NoMainCosts, [MainCosts |-> None]}
    \cup {[MainCosts |-> List(q)] : q \in SeqsUpTo(FillSectionPool, MaxFillSections)}

FillInit ==
    /\ fill_input \in FillDataPool
    /\ fill_data = fill_input
    /\ filled_count = 0
    /\ fill_pc = "input"
    /\ original_name = None
    /\ name_list = <<>>
    /\ cost_idx = 1
    /\ best_score = [sign |-> -1, bits |-> <<1>>, ex |-> 0]
    /\ best_name = ""
    /\ cost_type = ""
    /\ cost_pc = "idle"
    /\ main_costs_field = None
    /\ seg_idx = 1
    /\ current_rate_card = None
    /\ rate_cards = <<>>
    /\ seg_pc = "idle"
    /\ main_costs = <<>>
    /\ carrier = None
    /\ zoning_matrix = <<>>
    /\ parsed_lookup = <<>>
    /\ set_order = <<>>
    /\ lane_rows = <<>>
    /\ sorted_keys = <<>>
    /\ matrix_rows = <<>>
    /\ expanded = <<>>
    /\ category_specs = <<>>
    /\ mx_pc = "idle"
    /\ country = None
    /\ name_to_code = <<>>
    /\ country_code = ""
    /\ code_pc = "idle"
    /\ tagged = None
    /\ extracted = None
    /\ ext_pc = "idle"
    /\ find_order = <<>>
    /\ find_service = ""
    /\ find_result = ""
    /\ find_pc = "idle"
    /\ steps_run = <<>>
    /\ json_written = FALSE
    /\ xlsx_written = FALSE
    /\ txt_written = FALSE
    /\ input_at = "input"
    /\ archive_folder = ""
    /\ archive_names = {}
    /\ archived_to = <<>>
    /\ pipe_pc = "idle"

\* filled_count = fill_null_service_types(data), a first and a second time
Fill ==
    /\ fill_pc \in {"input", "filled"}
    /\ \E done \in {fill_null_service_types(fill_data)} :
          /\ fill_data' = done.data
          /\ filled_count' = done.filled_count
    /\ fill_pc' = IF fill_pc = "input" THEN "filled" ELSE "refilled"
    /\ UNCHANGED <<fill_input, seg_vars, mx_vars, cost_vars, code_vars, ext_vars, find_vars,
                   pipe_vars>>

FillSpec == FillInit /\ [][Fill]_vars

\* the sections before the first call and now
SectionsBefore == MainCostsOf(fill_input)
SectionsNow == MainCostsOf(fill_data)

\* section i was null and a section before it was not
WasNull(i) == ServiceTypeOf(SectionsBefore[i]) = None
NonNullBefore(i) == {j \in 1..(i - 1) : ServiceTypeOf(SectionsBefore[j]) # None}
Nearest(i) == CHOOSE j \in NonNullBefore(i) : \A n \in NonNullBefore(i) : n <= j
ToFill == {i \in 1..Len(SectionsBefore) : WasNull(i) /\ NonNullBefore(i) # {}}
Changed == {i \in 1..Len(SectionsBefore) : SectionsNow[i] # SectionsBefore[i]}

\* what a call leaves: the sections to fill carry the service_type of the
\* nearest non-null section before them, everything else is as it was
FilledFromNearest ==
    /\ DOMAIN fill_data = DOMAIN fill_input
    /\ Len(SectionsNow) = Len(SectionsBefore)
    /\ SectionsBefore = <<>> => fill_data = fill_input
    /\ \A i \in 1..Len(SectionsBefore) :
          IF i \in ToFill
          THEN /\ SectionsNow[i].service_type = SectionsBefore[Nearest(i)].service_type
               /\ SectionsNow[i].cost_category = SectionsBefore[i].cost_category
          ELSE SectionsNow[i] = SectionsBefore[i]

\* C29: after fill_null_service_types every section whose service_type was
\* null and that is preceded by a section with a non-null service_type carries
\* the service_type of the nearest preceding such section; sections with a
\* non-null service_type and null sections before the first non-null one are
\* unchanged; the returned count is the number of sections changed; a second
\* application changes nothing and returns 0.
C29_FillFromNearest ==
    /\ fill_pc = "filled" => FilledFromNearest /\ filled_count = Cardinality(Changed)
    /\ fill_pc = "refilled" => FilledFromNearest /\ filled_count = 0

\* a second call after a first one that filled the third section, which follows
\* a non-null one, and left alone a null first section
C29_Witness ==
    /\ fill_pc = "refilled"
    /\ Len(SectionsBefore) = 3
    /\ ToFill # {}
    /\ WasNull(1)
    /\ SectionsNow[1] = SectionsBefore[1]
    /\ SectionsNow[3] # SectionsBefore[3]
    /\ filled_count = 0

-----------------------------------------------------------------------------
(***************************************************************************)
(* run_pipeline and _archive_processed_input (src/pipeline_main.py).       *)
(* Every step either returns or raises; an exception leaves run_pipeline.  *)
(* The names of the archive are numbered: 0 is the name of the input file, *)
(* i is <stem>_i<suffix>.                                                  *)
(***************************************************************************)

PipeInit ==
    /\ steps_run = <<>>
    /\ json_written = FALSE
    /\ xlsx_written = FALSE
    /\ txt_written = FALSE
    /\ input_at = "input"
    /\ archive_folder \in {"", "archive"}
    /\ archive_names \in SUBSET (0..MaxArchived)
    /\ archived_to = <<>>
    /\ pipe_pc = "start"
    /\ original_name = None
    /\ name_list = <<>>
    /\ cost_idx = 1
    /\ best_score = [sign |-> -1, bits |-> <<1>>, ex |-> 0]
    /\ best_name = ""
    /\ cost_type = ""
    /\ cost_pc = "idle"
    /\ main_costs_field = None
    /\ seg_idx = 1
    /\ current_rate_card = None
    /\ rate_cards = <<>>
    /\ seg_pc = "idle"
    /\ main_costs = <<>>
    /\ carrier = None
    /\ zoning_matrix = <<>>
    /\ parsed_lookup = <<>>
    /\ set_order = <<>>
    /\ lane_rows = <<>>
    /\ sorted_keys = <<>>
    /\ matrix_rows = <<>>
    /\ expanded = <<>>
    /\ category_specs = <<>>
    /\ mx_pc = "idle"
    /\ country = None
    /\ name_to_code = <<>>
    /\ country_code = ""
    /\ code_pc = "idle"
    /\ tagged = None
    /\ extracted = None
    /\ ext_pc = "idle"
    /\ find_order = <<>>
    /\ find_service = ""
    /\ find_result = ""
    /\ find_pc = "idle"
    /\ fill_input = None
    /\ fill_data = None
    /\ filled_count = 0
    /\ fill_pc = "idle"

\* a step that returns goes on to next_pc, one that raises ends the run
StepTo(step, ok, next_pc) ==
    /\ steps_run' = Append(steps_run, step)
    /\ pipe_pc' = IF ok THEN next_pc ELSE "failed"

\* lines 247-282: defaults, output folder, _prepare_reference_files
Prepare ==
    /\ pipe_pc = "start"
    /\ \E ok \in BOOLEAN : pipe_pc' = IF ok THEN "prepared" ELSE "failed"
    /\ UNCHANGED <<steps_run, json_written, xlsx_written, txt_written, input_at, archive_folder,
                   archive_names, archived_to>>
    /\ UNCHANGED <<seg_vars, mx_vars, cost_vars, code_vars, ext_vars, find_vars, fill_vars>>

\* step 1: read_client_list, read_converted_json; a missing input file raises
ReadInputs ==
    /\ pipe_pc = "prepared"
    /\ \E ok \in {b \in BOOLEAN : b => input_at = "input"} : StepTo("read", ok, "read")
    /\ UNCHANGED <<json_written, xlsx_written, txt_written, input_at, archive_folder,
                   archive_names, archived_to>>
    /\ UNCHANGED <<seg_vars, mx_vars, cost_vars, code_vars, ext_vars, find_vars, fill_vars>>

\* step 2: detect_client_from_json, extract_fields, transform_data, save_output
Extract ==
    /\ pipe_pc = "read"
    /\ \E ok \in BOOLEAN :
          /\ StepTo("extract", ok, "extracted")
          /\ json_written' = ok
    /\ UNCHANGED <<xlsx_written, txt_written, input_at, archive_folder, archive_names,
                   archived_to>>
    /\ UNCHANGED <<seg_vars, mx_vars, cost_vars, code_vars, ext_vars, find_vars, fill_vars>>

\* step 3: fill_null_service_types, json.dump to the extracted JSON
FillNulls ==
    /\ pipe_pc = "extracted"
    /\ \E ok \in BOOLEAN : StepTo("fill", ok, "filled")
    /\ UNCHANGED <<json_written, xlsx_written, txt_written, input_at, archive_folder,
                   archive_names, archived_to>>
    /\ UNCHANGED <<seg_vars, mx_vars, cost_vars, code_vars, ext_vars, find_vars, fill_vars>>

\* step 4: save_to_excel
Workbook ==
    /\ pipe_pc = "filled"
    /\ \E ok \in BOOLEAN :
          /\ StepTo("workbook", ok, "workbook")
          /\ xlsx_written' = ok
    /\ UNCHANGED <<json_written, txt_written, input_at, archive_folder, archive_names,
                   archived_to>>
    /\ UNCHANGED <<seg_vars, mx_vars, cost_vars, code_vars, ext_vars, find_vars, fill_vars>>

\* step 5: create_country_region_txt
CountryZoningText ==
    /\ pipe_pc = "workbook"
    /\ \E ok \in BOOLEAN :
          /\ StepTo("text", ok, "text")
          /\ txt_written' = ok
    /\ UNCHANGED <<json_written, xlsx_written, input_at, archive_folder, archive_names,
                   archived_to>>
    /\ UNCHANGED <<seg_vars, mx_vars, cost_vars, code_vars, ext_vars, find_vars, fill_vars>>

\* the name of the input file whatever the archive holds
ArchiveName_Plain(names) == 0
\* lines 188-196: the name of the input file, or the first numbered name that
\* does not exist
ArchiveName(names) ==
    IF 0 \notin names THEN 0
    ELSE CHOOSE i \in 1..(Cardinality(names) + 1) :
            i \notin names /\ \A j \in 1..(i - 1) : j \in names

\* _archive_processed_input: nothing is done without an archive folder or
\* without the input file; shutil.move may raise
Archive ==
    /\ pipe_pc = "text"
    /\ \E ok \in BOOLEAN :
          /\ StepTo("archive", ok, "finished")
          /\ IF ok /\ archive_folder # "" /\ input_at = "input"
             THEN \E dst \in {ArchiveName(archive_names)} :
                     /\ archive_names' = archive_names \cup {dst}
                     /\ archived_to' = <<dst>>
                     /\ input_at' = "archive"
             ELSE UNCHANGED <<archive_names, archived_to, input_at>>
    /\ UNCHANGED <<json_written, xlsx_written, txt_written, archive_folder>>
    /\ UNCHANGED <<seg_vars, mx_vars, cost_vars, code_vars, ext_vars, find_vars, fill_vars>>

\* line 182: the input file is no longer there (it was removed by someone
\* else while the run was going on)
InputRemoved ==
    /\ pipe_pc \in {"prepared", "read", "extracted", "filled", "workbook", "text"}
    /\ input_at = "input"
    /\ input_at' = "gone"
    /\ UNCHANGED <<steps_run, json_written, xlsx_written, txt_written, archive_folder,
                   archive_names, archived_to, pipe_pc>>
    /\ UNCHANGED <<seg_vars, mx_vars, cost_vars, code_vars, ext_vars, find_vars, fill_vars>>

PipeNext ==
    \/ Prepare \/ ReadInputs \/ Extract \/ FillNulls \/ Workbook \/ CountryZoningText
    \/ Archive \/ InputRemoved

PipeSpec == PipeInit /\ [][PipeNext]_vars

\* the steps in the order of the code; "read" and "extract" are the
\* extraction (steps 1 and 2)
StepOrder == <<"read", "extract", "fill", "workbook", "text", "archive">>

\* a step is started only as the one that follows the steps started so far
NextInOrder ==
    steps_run' # steps_run =>
        /\ Len(steps_run) < Len(StepOrder)
        /\ steps_run' = Append(steps_run, StepOrder[Len(steps_run) + 1])

\* the input file is moved only by the archive step, only once the three
\* outputs are there, and only to a name that was not taken
MovedAfterOutputs ==
    (input_at = "input" /\ input_at' = "archive") =>
        /\ steps_run' = StepOrder
        /\ json_written /\ xlsx_written /\ txt_written
        /\ \E i \in 0..(MaxArchived + 1) :
              /\ archived_to' = <<i>>
              /\ i \notin archive_names
              /\ i > 0 <=> 0 \in archive_names
              /\ archive_names' = archive_names \cup {i}

\* nothing is ever taken out of the archive, and a failing step moves nothing
ArchiveKept ==
    /\ archive_names \subseteq archive_names'
    /\ archive_names' # archive_names => (input_at = "input" /\ input_at' = "archive")
    /\ pipe_pc' = "failed" => (input_at' = input_at /\ input_at' # "archive")

\* C30: in run_pipeline the steps run in the fixed order extract, fill null
\* service types, build workbook, build country-zoning text, archive; the
\* input file is moved to the archive only after the extracted JSON, the
\* workbook and the text file have all been produced, so a failure in any
\* earlier step leaves the input file in place; the archive move never
\* overwrites an archived file: a numbered name that does not yet exist is
\* used instead.
C30_ArchiveLast ==
    [][NextInOrder /\ MovedAfterOutputs /\ ArchiveKept]_vars

\* the outputs are there and the input file was moved to a numbered name,
\* the plain name and the first numbered name being taken
C30_Witness ==
    /\ pipe_pc = "finished"
    /\ steps_run = StepOrder
    /\ json_written /\ xlsx_written /\ txt_written
    /\ input_at = "archive"
    /\ archived_to = <<2>>
    /\ archive_names = {0, 1, 2}

=============================================================================
